---- MODULE Spec2Model ----
(***************************************************************************)
(* Timed commit / reveal / resolve session of the public-broadcast DRA     *)
(* (src/src/protocol.rs), together with the one-shot resolution and the    *)
(* transcript audit it calls (src/src/auction.rs) and the commitment       *)
(* schemes it is generic over (src/src/commitment.rs).                     *)
(*                                                                         *)
(* Amounts (bids, reserve, collateral) are f64 in the source; here they    *)
(* are naturals counted in steps of 1/(GridPerUnit * BID_SCALE), so that   *)
(* the fixed-point encoding round(bid * BID_SCALE) is a real rounding.     *)
(* Option<T> is a sequence of length at most one.                          *)
(***************************************************************************)
EXTENDS Integers, Sequences, FiniteSets, TLC

\* ---------------------------------------------------------------- bounds
MaxTime == 2
NumReal == 2
NumFalse == 1
GridPerUnit == 2
MaxCommits == 1
MaxBuyers == 3
RankSpread == 2
MaxValid == 3
NumThreads == 2
MaxAppends == 2
MaxEntries == 2

\* ------------------------------------------------------ program constants
FalseTieRankBase == 50000
MinRangeBits == 8

\* amounts the callers supply: the bid is above the reserve and its encoding
\* does not fit MinRangeBits bits, so that the two schemes disagree on it
Bids == {GridPerUnit * 300}
Reserves == {GridPerUnit * 2}
PostedCollaterals == {GridPerUnit * 2}
Seeds == {17}
EntropySeeds == {23, 29}
Times == 0 .. MaxTime

\* ------------------------------------------------------------ identities
Auctioneer == [kind |-> "Auctioneer", idx |-> 0]

Real(i) == [kind |-> "Real", idx |-> i]

False(j) == [kind |-> "False", idx |-> j]

RealIds == {Real(i) : i \in 0 .. NumReal - 1}
FalseIds == {False(j) : j \in 0 .. NumFalse - 1}
ParticipantId == {Auctioneer} \cup RealIds \cup FalseIds

tie_rank(id) ==
    CASE id.kind = "Auctioneer" -> 0
      [] id.kind = "Real" -> 1 + id.idx
      [] id.kind = "False" -> FalseTieRankBase + id.idx

\* ------------------------------------------------------------ sequences
\* Iterator::position over the participant column, 0 for None
PositionOf(s, id) ==
    IF \E k \in 1 .. Len(s) : s[k].participant = id
    THEN CHOOSE k \in 1 .. Len(s) :
            /\ s[k].participant = id
            /\ \A j \in 1 .. k - 1 : s[j].participant # id
    ELSE 0

Contains(s, x) == \E k \in 1 .. Len(s) : s[k] = x

RECURSIVE Pow2(_)
Pow2(n) == IF n = 0 THEN 1 ELSE 2 * Pow2(n - 1)

\* ----------------------------------------------------- commitment schemes
\* BidEncoding::new: (bid * BID_SCALE).round(), half away from zero
BidEncoding(bid) == (2 * bid + GridPerUnit) \div (2 * GridPerUnit)

\* the k-th 32-byte block of the StdRng stream seeded with seed
random_bytes(rng) == [seed |-> rng.seed, block |-> rng.pos]

RngStep(rng, n) == [rng EXCEPT !.pos = @ + n]

\* SHA-256 over (tag, encoding, salt, mask): collision-free, so the digest
\* is the tuple of what was hashed
hash_commitment(encoding, salt, mask) ==
    [tag |-> "DRA-BID", encoding |-> encoding, salt |-> salt, mask |-> mask]

NoBytes == [seed |-> 0, block |-> 0]

ShaCommit(bid, rng) ==
    LET salt == random_bytes(rng)
        mask == random_bytes(RngStep(rng, 1))
        encoding == BidEncoding(bid)
    IN [commitment |-> hash_commitment(encoding, salt, mask),
        opening |-> [bid |-> bid, encoding |-> encoding, salt |-> salt,
                     mask |-> mask, bulletproof |-> <<>>],
        rng |-> RngStep(rng, 2)]

\* a verify that trusts the stored encoding
ShaVerify_stored_encoding(commitment, opening) ==
    commitment = hash_commitment(opening.encoding, opening.salt, opening.mask)

ShaVerify(commitment, opening) ==
    LET encoding == BidEncoding(opening.bid)
    IN /\ encoding = opening.encoding
       /\ commitment = hash_commitment(encoding, opening.salt, opening.mask)

\* encoding < 2^bits; the encodings of the model are all below 2^30, the
\* largest power TLC's integers hold
FitsBits(encoding, bits) == IF bits >= 30 THEN TRUE ELSE encoding < Pow2(bits)

\* PedersenGens::commit(value, blinding): binding, so the point is the pair
PedersenCommit(value, blinding) ==
    [tag |-> "PEDERSEN", encoding |-> value, blinding |-> blinding]

\* RangeProof::prove_single: the proof is made for the point it is handed
\* and convinces a verifier exactly when the value fits range_bits bits
BulletproofsCommit(range_bits, bid, rng) ==
    LET encoding == BidEncoding(bid)
        blinding == random_bytes(rng)
        point == PedersenCommit(encoding, blinding)
        proof == [point |-> point, bits |-> range_bits,
                  sound |-> FitsBits(encoding, range_bits)]
    IN [commitment |-> point,
        opening |-> [bid |-> bid, encoding |-> encoding, salt |-> NoBytes,
                     mask |-> NoBytes,
                     bulletproof |-> <<[proof |-> proof, blinding |-> blinding,
                                        range_bits |-> range_bits]>>],
        rng |-> RngStep(rng, 1)]

BulletproofsVerify(range_bits, commitment, opening) ==
    IF BidEncoding(opening.bid) # opening.encoding THEN FALSE
    ELSE IF opening.bulletproof = <<>> THEN FALSE
    ELSE LET bp == opening.bulletproof[1]
         IN /\ bp.proof.point = commitment
            /\ bp.proof.bits = bp.range_bits
            /\ bp.proof.sound
            /\ PedersenCommit(opening.encoding, bp.blinding) = commitment

Schemes == {[backend |-> "Sha", range_bits |-> 0],
            [backend |-> "Bulletproofs", range_bits |-> MinRangeBits]}

SchemeCommit(s, bid, rng) ==
    IF s.backend = "Sha" THEN ShaCommit(bid, rng)
    ELSE BulletproofsCommit(s.range_bits, bid, rng)

SchemeVerify(s, commitment, opening) ==
    IF s.backend = "Sha" THEN ShaVerify(commitment, opening)
    ELSE BulletproofsVerify(s.range_bits, commitment, opening)

\* ------------------------------------------------- one-shot resolution
\* PublicBroadcastDRA::validate_inputs; alpha is 1.0 throughout, which no
\* distribution of the repository rejects
\* a validation that lets zero buyers through
validate_inputs_any_count(buyers) == [tag |-> "Ok", err |-> ""]

validate_inputs(buyers) ==
    IF buyers = 0 THEN [tag |-> "Err", err |-> "InsufficientBuyers"]
    ELSE [tag |-> "Ok", err |-> ""]

\* collateral_requirement with alpha >= 1.0
collateral_requirement(n, reserve) == reserve

\* the (id, bid, will_reveal) triples in the order the run commits them
AuctionEntries(valuations, false_bids, real_reveals) ==
    [k \in 1 .. Len(valuations) |->
        [id |-> Real(k - 1), bid |-> valuations[k],
         will_reveal |-> IF real_reveals = <<>> THEN TRUE
                         ELSE IF k <= Len(real_reveals[1]) THEN real_reveals[1][k]
                         ELSE TRUE]]
    \o [j \in 1 .. Len(false_bids) |->
        [id |-> False(j - 1), bid |-> false_bids[j].bid,
         will_reveal |-> false_bids[j].reveal]]

RECURSIVE CommitRecords(_, _, _, _, _)
\* the commitment loop: CommitmentRecord per entry, rng threaded through
CommitRecords(entries, k, scheme, rng, collateral) ==
    IF k > Len(entries) THEN <<>>
    ELSE LET c == SchemeCommit(scheme, entries[k].bid, rng)
         IN <<[id |-> entries[k].id, commitment |-> c.commitment,
               opening |-> c.opening, posted_collateral |-> collateral,
               will_reveal |-> entries[k].will_reveal]>>
            \o CommitRecords(entries, k + 1, scheme, c.rng, collateral)

\* the reveal test that verifies and ignores the flag
IsValid_verify_only(scheme, c) == SchemeVerify(scheme, c.commitment, c.opening)

\* the reveal test that trusts the flag and skips verification
IsValid_flag_only(scheme, c) == c.will_reveal

IsValid(scheme, c) == c.will_reveal /\ SchemeVerify(scheme, c.commitment, c.opening)

RECURSIVE ValidBids(_, _, _)
ValidBids(scheme, commitments, k) ==
    IF k > Len(commitments) THEN <<>>
    ELSE (IF IsValid(scheme, commitments[k])
          THEN <<<<commitments[k].id, commitments[k].opening.bid>>>>
          ELSE <<>>)
         \o ValidBids(scheme, commitments, k + 1)

RECURSIVE InvalidCollateral(_, _, _)
InvalidCollateral(scheme, commitments, k) ==
    IF k > Len(commitments) THEN 0
    ELSE (IF IsValid(scheme, commitments[k]) THEN 0
          ELSE commitments[k].posted_collateral)
         + InvalidCollateral(scheme, commitments, k + 1)

RECURSIVE Resolve(_, _, _, _)
\* the highest / second scan; both are Options
Resolve(valid_bids, k, highest, second) ==
    IF k > Len(valid_bids) THEN [highest |-> highest, second |-> second]
    ELSE LET id == valid_bids[k][1]
             bid == valid_bids[k][2]
         IN IF highest = <<>>
            THEN Resolve(valid_bids, k + 1, <<<<id, bid>>>>, second)
            ELSE LET hid == highest[1][1]
                     hbid == highest[1][2]
                 IN IF bid > hbid \/ (bid = hbid /\ tie_rank(id) < tie_rank(hid))
                    THEN Resolve(valid_bids, k + 1, <<<<id, bid>>>>, <<hbid>>)
                    ELSE IF bid = hbid
                    THEN Resolve(valid_bids, k + 1, highest,
                                 IF second = <<>> \/ bid > second[1]
                                 THEN <<bid>> ELSE second)
                    ELSE IF (second = <<>> \/ bid > second[1]) /\ bid < hbid
                    THEN Resolve(valid_bids, k + 1, highest, <<bid>>)
                    ELSE Resolve(valid_bids, k + 1, highest, second)

Max(a, b) == IF a >= b THEN a ELSE b

\* the settlement that also sells at a highest bid equal to the reserve
Outcome_sale_at_reserve(reserve, collateral, valid_bids, invalid_collateral) ==
    LET r == Resolve(valid_bids, 1, <<>>, <<>>)
        settle ==
            IF r.highest = <<>>
            THEN <<<<>>, 0, 0, 0, invalid_collateral>>
            ELSE LET id == r.highest[1][1]
                     bid == r.highest[1][2]
                 IN IF bid >= reserve
                    THEN LET second_bid == IF r.second = <<>> THEN 0 ELSE r.second[1]
                         IN <<<<id>>, bid, Max(reserve, second_bid),
                              invalid_collateral, 0>>
                    ELSE <<<<>>, bid, 0, invalid_collateral, 0>>
    IN [reserve |-> reserve, collateral |-> collateral,
        winner |-> settle[1], winning_bid |-> settle[2], payment |-> settle[3],
        transferred_collateral |-> settle[4],
        forfeited_to_auctioneer |-> settle[5],
        auctioneer_penalty |-> 0, valid_bids |-> valid_bids]

\* the settlement that lets the auctioneer keep the collateral whenever nothing is sold
Outcome_retain_without_sale(reserve, collateral, valid_bids, invalid_collateral) ==
    LET r == Resolve(valid_bids, 1, <<>>, <<>>)
        settle ==
            IF r.highest = <<>>
            THEN <<<<>>, 0, 0, 0, invalid_collateral>>
            ELSE LET id == r.highest[1][1]
                     bid == r.highest[1][2]
                 IN IF bid > reserve
                    THEN LET second_bid == IF r.second = <<>> THEN 0 ELSE r.second[1]
                         IN <<<<id>>, bid, Max(reserve, second_bid),
                              invalid_collateral, 0>>
                    ELSE <<<<>>, bid, 0, 0, invalid_collateral>>
    IN [reserve |-> reserve, collateral |-> collateral,
        winner |-> settle[1], winning_bid |-> settle[2], payment |-> settle[3],
        transferred_collateral |-> settle[4],
        forfeited_to_auctioneer |-> settle[5],
        auctioneer_penalty |-> 0, valid_bids |-> valid_bids]

\* the settlement that credits the forfeited collateral to both sides on a sale
Outcome_counted_twice(reserve, collateral, valid_bids, invalid_collateral) ==
    LET r == Resolve(valid_bids, 1, <<>>, <<>>)
        settle ==
            IF r.highest = <<>>
            THEN <<<<>>, 0, 0, 0, invalid_collateral>>
            ELSE LET id == r.highest[1][1]
                     bid == r.highest[1][2]
                 IN IF bid > reserve
                    THEN LET second_bid == IF r.second = <<>> THEN 0 ELSE r.second[1]
                         IN <<<<id>>, bid, Max(reserve, second_bid),
                              invalid_collateral, invalid_collateral>>
                    ELSE <<<<>>, bid, 0, invalid_collateral, 0>>
    IN [reserve |-> reserve, collateral |-> collateral,
        winner |-> settle[1], winning_bid |-> settle[2], payment |-> settle[3],
        transferred_collateral |-> settle[4],
        forfeited_to_auctioneer |-> settle[5],
        auctioneer_penalty |-> 0, valid_bids |-> valid_bids]

Outcome(reserve, collateral, valid_bids, invalid_collateral) ==
    LET r == Resolve(valid_bids, 1, <<>>, <<>>)
        settle ==
            IF r.highest = <<>>
            THEN <<<<>>, 0, 0, 0, invalid_collateral>>
            ELSE LET id == r.highest[1][1]
                     bid == r.highest[1][2]
                 IN IF bid > reserve
                    THEN LET second_bid == IF r.second = <<>> THEN 0 ELSE r.second[1]
                         IN <<<<id>>, bid, Max(reserve, second_bid),
                              invalid_collateral, 0>>
                    ELSE <<<<>>, bid, 0, invalid_collateral, 0>>
    IN [reserve |-> reserve, collateral |-> collateral,
        winner |-> settle[1], winning_bid |-> settle[2], payment |-> settle[3],
        transferred_collateral |-> settle[4],
        forfeited_to_auctioneer |-> settle[5],
        auctioneer_penalty |-> 0, valid_bids |-> valid_bids]

PhaseTransition(phase, reason) ==
    [type |-> "PhaseTransition", phase |-> phase, reason |-> reason]

Timeout(phase, target) == [type |-> "Timeout", phase |-> phase, target |-> target]

RevealPublished(success) == [type |-> "RevealPublished", success |-> success]

CommitmentPublished == [type |-> "CommitmentPublished"]

\* the AuctionOutcome of run_with_false_bids_using_scheme_with_transcript
RunOutcome(reserve, valuations, false_bids, real_reveals, rng, scheme) ==
    LET collateral == collateral_requirement(Len(valuations), reserve)
        commitments == CommitRecords(AuctionEntries(valuations, false_bids,
                                                    real_reveals),
                                     1, scheme, rng, collateral)
    IN Outcome(reserve, collateral, ValidBids(scheme, commitments, 1),
               InvalidCollateral(scheme, commitments, 1))

\* run_with_false_bids_using_scheme_with_transcript, for n >= 1 valuations
RunAuction(reserve, valuations, false_bids, real_reveals, rng, scheme) ==
    LET n == Len(valuations)
        collateral == collateral_requirement(n, reserve)
        entries == AuctionEntries(valuations, false_bids, real_reveals)
        commitments == CommitRecords(entries, 1, scheme, rng, collateral)
        total == Len(commitments)
        commit_deadline == total
        reveal_deadline == 2 * total + 1
        outcome == Outcome(reserve, collateral, ValidBids(scheme, commitments, 1),
                           InvalidCollateral(scheme, commitments, 1))
        commit_events ==
            [k \in 1 .. total |->
                [participant |-> commitments[k].id,
                 commitment |-> commitments[k].commitment, timestamp |-> k - 1]]
        reveal_events ==
            [k \in 1 .. total |->
                IF IsValid(scheme, commitments[k])
                THEN [participant |-> commitments[k].id, revealed |-> TRUE,
                      opening |-> <<commitments[k].opening>>,
                      timestamp |-> total + k]
                ELSE [participant |-> commitments[k].id, revealed |-> FALSE,
                      opening |-> <<>>, timestamp |-> total + k]]
        broadcast_events ==
            [k \in 1 .. total |->
                [timestamp |-> k - 1, sender |-> commitments[k].id,
                 message |-> CommitmentPublished]]
            \o <<[timestamp |-> commit_deadline, sender |-> Auctioneer,
                  message |-> PhaseTransition("Reveal", "Manual")]>>
            \o [k \in 1 .. total |->
                IF IsValid(scheme, commitments[k])
                THEN [timestamp |-> total + k, sender |-> commitments[k].id,
                      message |-> RevealPublished(TRUE)]
                ELSE [timestamp |-> total + k, sender |-> Auctioneer,
                      message |-> Timeout("Reveal", commitments[k].id)]]
            \o <<[timestamp |-> reveal_deadline, sender |-> Auctioneer,
                  message |-> PhaseTransition("Resolved", "Manual")]>>
    IN [outcome |-> outcome, records |-> commitments,
        transcript |-> [commitments |-> commit_events, reveals |-> reveal_events,
                        broadcasts |-> broadcast_events,
                        timings |-> [commit_deadline |-> commit_deadline,
                                     reveal_deadline |-> reveal_deadline],
                        outcome |-> <<outcome>>]]

\* ---------------------------------------------------- transcript audit
AuditOk == [tag |-> "Ok", err |-> "", participant |-> Auctioneer,
            phase |-> "", timestamp |-> 0]

AuditErr(err) == [AuditOk EXCEPT !.tag = "Err", !.err = err]

BadOpening(p) == [AuditErr("BadOpening") EXCEPT !.participant = p]

RevealWithoutCommit(p) == [AuditErr("RevealWithoutCommit") EXCEPT !.participant = p]

UnorderedEvents(what) == [AuditErr("UnorderedEvents") EXCEPT !.phase = what]

DeadlineViolation(p, phase, ts) ==
    [tag |-> "Err", err |-> "DeadlineViolation", participant |-> p,
     phase |-> phase, timestamp |-> ts]

RECURSIVE AuditCommitments_strict(_, _, _)
\* a first loop that also rejects a commit event stamped commit_deadline
AuditCommitments_strict(t, k, last_ts) ==
    IF k > Len(t.commitments) THEN AuditOk
    ELSE LET c == t.commitments[k]
         IN IF c.timestamp < last_ts THEN UnorderedEvents("commitments")
            ELSE IF c.timestamp >= t.timings.commit_deadline
            THEN DeadlineViolation(c.participant, "Commit", c.timestamp)
            ELSE AuditCommitments_strict(t, k + 1, c.timestamp)

RECURSIVE AuditCommitments(_, _, _)
\* first loop: ordering and commit deadline of the commit events
AuditCommitments(t, k, last_ts) ==
    IF k > Len(t.commitments) THEN AuditOk
    ELSE LET c == t.commitments[k]
         IN IF c.timestamp < last_ts THEN UnorderedEvents("commitments")
            ELSE IF c.timestamp > t.timings.commit_deadline
            THEN DeadlineViolation(c.participant, "Commit", c.timestamp)
            ELSE AuditCommitments(t, k + 1, c.timestamp)

\* a lookup that falls back on the first commit event
CommitMapIndex_or_first(t, p) ==
    IF \E k \in 1 .. Len(t.commitments) : t.commitments[k].participant = p
    THEN CHOOSE k \in 1 .. Len(t.commitments) :
            /\ t.commitments[k].participant = p
            /\ \A j \in k + 1 .. Len(t.commitments) : t.commitments[j].participant # p
    ELSE 1

\* commit_map after the first loop: HashMap::insert keeps the latest entry
\* of a participant; 0 for a participant without commit event
CommitMapIndex(t, p) ==
    IF \E k \in 1 .. Len(t.commitments) : t.commitments[k].participant = p
    THEN CHOOSE k \in 1 .. Len(t.commitments) :
            /\ t.commitments[k].participant = p
            /\ \A j \in k + 1 .. Len(t.commitments) : t.commitments[j].participant # p
    ELSE 0

\* the checks on a revealed event that skip the scheme's verification
OpeningFault_unverified(t, scheme, rev, ci) ==
    IF rev.opening = <<>> THEN TRUE
    ELSE ~\E v \in 1 .. Len(t.outcome[1].valid_bids) :
            t.outcome[1].valid_bids[v][1] = rev.participant

\* the checks on a revealed event that skip the outcome's valid bids
OpeningFault_unlisted(t, scheme, rev, ci) ==
    IF rev.opening = <<>> THEN TRUE
    ELSE ~SchemeVerify(scheme, t.commitments[ci].commitment, rev.opening[1])

\* the `if rev.revealed` block of the second loop: TRUE when one of its
\* three checks answers BadOpening; ci is the participant's commit_map entry
OpeningFault(t, scheme, rev, ci) ==
    IF rev.opening = <<>> THEN TRUE
    ELSE IF ~SchemeVerify(scheme, t.commitments[ci].commitment, rev.opening[1])
    THEN TRUE
    ELSE ~\E v \in 1 .. Len(t.outcome[1].valid_bids) :
            t.outcome[1].valid_bids[v][1] = rev.participant

RECURSIVE AuditReveals(_, _, _, _)
\* second loop: the reveal events
AuditReveals(t, scheme, k, last_ts) ==
    IF k > Len(t.reveals) THEN AuditOk
    ELSE LET rev == t.reveals[k]
             ci == CommitMapIndex(t, rev.participant)
         IN IF rev.timestamp < last_ts THEN UnorderedEvents("reveals")
            ELSE IF rev.timestamp > t.timings.reveal_deadline
            THEN DeadlineViolation(rev.participant, "Reveal", rev.timestamp)
            ELSE IF ci = 0 THEN RevealWithoutCommit(rev.participant)
            ELSE IF rev.timestamp < t.commitments[ci].timestamp
            THEN DeadlineViolation(rev.participant, "Commit", rev.timestamp)
            ELSE IF rev.revealed /\ OpeningFault(t, scheme, rev, ci)
            THEN BadOpening(rev.participant)
            ELSE AuditReveals(t, scheme, k + 1, rev.timestamp)

RECURSIVE AuditBroadcasts_strict(_, _, _)
\* a third loop that also rejects a Timeout stamped exactly at its deadline
AuditBroadcasts_strict(t, k, last_ts) ==
    IF k > Len(t.broadcasts) THEN AuditOk
    ELSE LET event == t.broadcasts[k]
             m == event.message
             cd == t.timings.commit_deadline
             rd == t.timings.reveal_deadline
         IN IF event.timestamp < last_ts THEN UnorderedEvents("broadcasts")
            ELSE IF m.type = "CommitmentPublished" /\ event.timestamp > cd
            THEN DeadlineViolation(event.sender, "Commit", event.timestamp)
            ELSE IF m.type = "RevealPublished" /\ event.timestamp > rd
            THEN DeadlineViolation(event.sender, "Reveal", event.timestamp)
            ELSE IF m.type = "Timeout"
                    /\ event.timestamp <= (IF m.phase = "Commit" THEN cd ELSE rd)
            THEN DeadlineViolation(m.target, m.phase, event.timestamp)
            ELSE IF m.type = "PhaseTransition" /\ m.phase = "Reveal"
                    /\ event.timestamp < cd
            THEN DeadlineViolation(event.sender, m.phase, event.timestamp)
            ELSE IF m.type = "PhaseTransition" /\ m.phase = "Resolved"
                    /\ event.timestamp < rd
            THEN DeadlineViolation(event.sender, m.phase, event.timestamp)
            ELSE AuditBroadcasts_strict(t, k + 1, event.timestamp)

RECURSIVE AuditBroadcasts(_, _, _)
\* third loop: the broadcast events
AuditBroadcasts(t, k, last_ts) ==
    IF k > Len(t.broadcasts) THEN AuditOk
    ELSE LET event == t.broadcasts[k]
             m == event.message
             cd == t.timings.commit_deadline
             rd == t.timings.reveal_deadline
         IN IF event.timestamp < last_ts THEN UnorderedEvents("broadcasts")
            ELSE IF m.type = "CommitmentPublished" /\ event.timestamp > cd
            THEN DeadlineViolation(event.sender, "Commit", event.timestamp)
            ELSE IF m.type = "RevealPublished" /\ event.timestamp > rd
            THEN DeadlineViolation(event.sender, "Reveal", event.timestamp)
            ELSE IF m.type = "Timeout"
                    /\ event.timestamp < (IF m.phase = "Commit" THEN cd ELSE rd)
            THEN DeadlineViolation(m.target, m.phase, event.timestamp)
            ELSE IF m.type = "PhaseTransition" /\ m.phase = "Reveal"
                    /\ event.timestamp < cd
            THEN DeadlineViolation(event.sender, m.phase, event.timestamp)
            ELSE IF m.type = "PhaseTransition" /\ m.phase = "Resolved"
                    /\ event.timestamp < rd
            THEN DeadlineViolation(event.sender, m.phase, event.timestamp)
            ELSE AuditBroadcasts(t, k + 1, event.timestamp)

audit_transcript(t, scheme) ==
    IF t.outcome = <<>> THEN AuditErr("MissingOutcome")
    ELSE IF t.timings.reveal_deadline < t.timings.commit_deadline
    THEN AuditErr("MissingTimings")
    ELSE LET a == AuditCommitments(t, 1, 0)
         IN IF a.tag = "Err" THEN a
            ELSE LET b == AuditReveals(t, scheme, 1, t.timings.commit_deadline)
                 IN IF b.tag = "Err" THEN b
                    ELSE AuditBroadcasts(t, 1, 0)

\* ------------------------------------------------------------ AuditLedger
\* the all-zero accumulator aggregate_root starts from
ZeroRoot == <<>>

\* BLAKE3 over (tag, acc, entry): collision-free, so the digest is the tuple
\* of what was hashed
RootStep(acc, entry) == <<"DRA-AUDIT-ROOT", acc, entry>>

RECURSIVE FoldRoot(_, _, _)
\* the loop of aggregate_root from its k-th entry on, acc being the
\* accumulator so far
FoldRoot(entries, k, acc) ==
    IF k > Len(entries) THEN acc
    ELSE FoldRoot(entries, k + 1, RootStep(acc, entries[k]))

aggregate_root(entries) == FoldRoot(entries, 1, ZeroRoot)

\* AuditLedger::new: no entry, mutex not held (owner 0)
NewLedger == [entries |-> <<>>, owner |-> 0]

\* a log_entry that takes the root before the push
log_entry_root_before_push(entries, entry_hash) ==
    LET guard == Append(entries, entry_hash)
    IN [entries |-> guard,
        receipt |-> [index |-> Len(guard) - 1, root |-> aggregate_root(entries),
                     entry_hash |-> entry_hash]]

\* a verify that does not replay the chain
ledger_verify_no_replay(entries, receipt) ==
    IF receipt.index >= Len(entries) THEN FALSE
    ELSE entries[receipt.index + 1] = receipt.entry_hash

\* a log_entry that puts the new entry in front of the stored ones
log_entry_at_front(entries, entry_hash) ==
    LET guard == <<entry_hash>> \o entries
    IN [entries |-> guard,
        receipt |-> [index |-> Len(guard) - 1, root |-> aggregate_root(guard),
                     entry_hash |-> entry_hash]]

\* the body of log_entry under the guard: the entries after the push and
\* the receipt
log_entry(entries, entry_hash) ==
    LET guard == Append(entries, entry_hash)
    IN [entries |-> guard,
        receipt |-> [index |-> Len(guard) - 1, root |-> aggregate_root(guard),
                     entry_hash |-> entry_hash]]

\* AuditLedger::verify under the guard
ledger_verify(entries, receipt) ==
    IF receipt.index >= Len(entries) THEN FALSE
    ELSE /\ entries[receipt.index + 1] = receipt.entry_hash
         /\ aggregate_root(SubSeq(entries, 1, receipt.index + 1)) = receipt.root

\* ------------------------------------------- the other three backends
\* pedersen_point: blind * G + (encoding + hash(mask)) * H; binding, so the
\* point is the scalars it was made of
pedersen_point(encoding, salt, mask) ==
    [tag |-> "RISTRETTO", blind |-> salt, msg |-> <<encoding, mask>>]

PedersenRistrettoCommit(bid, rng) ==
    LET salt == random_bytes(rng)
        mask == random_bytes(RngStep(rng, 1))
        encoding == BidEncoding(bid)
    IN [commitment |-> pedersen_point(encoding, salt, mask),
        opening |-> [bid |-> bid, encoding |-> encoding, salt |-> salt,
                     mask |-> mask, bulletproof |-> <<>>],
        rng |-> RngStep(rng, 2)]

PedersenRistrettoVerify(commitment, opening) ==
    IF BidEncoding(opening.bid) # opening.encoding THEN FALSE
    ELSE commitment = pedersen_point(opening.encoding, opening.salt, opening.mask)

\* blind * G + message * H of RealNonMalleableCommitment
fischlin_point(blind, message) ==
    [tag |-> "RISTRETTO", blind |-> blind, msg |-> message]

\* SHA-256 over (tag, commitment, witness, encoding)
derive_challenge(point, witness, encoding) ==
    [tag |-> "DRA-FISCHLIN-CHALLENGE", commitment |-> point,
     witness |-> witness, encoding |-> encoding]

\* k_blind and k_msg are drawn from the mask; a response k + c * x is the
\* triple it was made of
build_fischlin_proof(point, blind, message, mask, encoding) ==
    LET k_blind == <<mask, 0>>
        k_msg == <<mask, 1>>
        challenge == derive_challenge(point, [blind |-> k_blind, msg |-> k_msg],
                                      encoding)
    IN [challenge |-> challenge,
        response_blind |-> [k |-> k_blind, c |-> challenge, x |-> blind],
        response_message |-> [k |-> k_msg, c |-> challenge, x |-> message]]

\* lhs - challenge * commitment is the point of the two nonces exactly when
\* the responses were made with this challenge and the commitment's scalars
verify_fischlin_proof(point, proof, encoding, blind, message) ==
    LET rb == proof.response_blind
        rm == proof.response_message
        witness == IF /\ rb.c = proof.challenge
                      /\ rm.c = proof.challenge
                      /\ rb.x = point.blind
                      /\ rm.x = point.msg
                   THEN [blind |-> rb.k, msg |-> rm.k]
                   ELSE [blind |-> <<>>, msg |-> <<>>]
    IN IF derive_challenge(point, witness, encoding) # proof.challenge THEN FALSE
       ELSE fischlin_point(blind, message) = point

RealCommit(bid, rng) ==
    LET encoding == BidEncoding(bid)
        salt == random_bytes(rng)
        mask == random_bytes(RngStep(rng, 1))
        point == fischlin_point(salt, encoding)
    IN [commitment |-> point,
        opening |-> [bid |-> bid, encoding |-> encoding, salt |-> salt,
                     mask |-> mask,
                     proof |-> <<build_fischlin_proof(point, salt, encoding,
                                                      mask, encoding)>>,
                     bulletproof |-> <<>>],
        rng |-> RngStep(rng, 2)]

RealVerify(commitment, opening) ==
    IF BidEncoding(opening.bid) # opening.encoding THEN FALSE
    ELSE IF opening.proof = <<>> THEN FALSE
    ELSE verify_fischlin_proof(commitment, opening.proof[1], opening.encoding,
                               opening.salt, opening.encoding)

\* BLAKE3 over (tag, commitment, encoding, salt, mask, proof parts): the
\* bid and the receipt are not hashed; the inner scheme sets no Fischlin
\* proof
audit_entry_hash(commitment, opening) ==
    [tag |-> "DRA-AUDIT-ENTRY", commitment |-> commitment,
     encoding |-> opening.encoding, salt |-> opening.salt, mask |-> opening.mask,
     bulletproof |-> opening.bulletproof]

\* AuditedNonMalleableCommitment::commit on a ledger holding entries
AuditedCommit(range_bits, bid, rng, entries) ==
    LET inner == BulletproofsCommit(range_bits, bid, rng)
        blank == [bid |-> inner.opening.bid, encoding |-> inner.opening.encoding,
                  salt |-> inner.opening.salt, mask |-> inner.opening.mask,
                  bulletproof |-> inner.opening.bulletproof,
                  audit_receipt |-> <<>>]
        logged == log_entry(entries, audit_entry_hash(inner.commitment, blank))
    IN [commitment |-> inner.commitment,
        opening |-> [blank EXCEPT !.audit_receipt = <<logged.receipt>>],
        rng |-> inner.rng,
        entries |-> logged.entries]

entry_hash_matches(receipt, commitment, opening) ==
    receipt.entry_hash = audit_entry_hash(commitment, opening)

\* a verify that holds the receipt against the root of the whole ledger
AuditedVerify_latest_root(range_bits, commitment, opening, entries) ==
    IF opening.audit_receipt = <<>> THEN FALSE
    ELSE /\ BulletproofsVerify(range_bits, commitment, opening)
         /\ entry_hash_matches(opening.audit_receipt[1], commitment, opening)
         /\ opening.audit_receipt[1].root = aggregate_root(entries)

\* AuditedNonMalleableCommitment::verify
AuditedVerify(range_bits, commitment, opening, entries) ==
    IF opening.audit_receipt = <<>> THEN FALSE
    ELSE /\ BulletproofsVerify(range_bits, commitment, opening)
         /\ entry_hash_matches(opening.audit_receipt[1], commitment, opening)
         /\ ledger_verify(entries, opening.audit_receipt[1])

\* CommitmentScheme::commit of any of the five backends; entries is the
\* ledger of the audited wrapper and is left alone by the others
BackendCommit(s, bid, rng, entries) ==
    LET plain == CASE s.backend = "Pedersen" -> PedersenRistrettoCommit(bid, rng)
                   [] s.backend = "Fischlin" -> RealCommit(bid, rng)
                   [] OTHER -> SchemeCommit(s, bid, rng)
    IN IF s.backend = "Audited"
       THEN AuditedCommit(s.range_bits, bid, rng, entries)
       ELSE [commitment |-> plain.commitment, opening |-> plain.opening,
             rng |-> plain.rng, entries |-> entries]

BackendVerify(s, commitment, opening, entries) ==
    CASE s.backend = "Pedersen" -> PedersenRistrettoVerify(commitment, opening)
      [] s.backend = "Fischlin" -> RealVerify(commitment, opening)
      [] s.backend = "Audited" ->
            AuditedVerify(s.range_bits, commitment, opening, entries)
      [] OTHER -> SchemeVerify(s, commitment, opening)

\* ------------------------------------------------------ ProtocolSession
VARIABLES dra, rng, scheme, phase, schedule, current_time, commitments,
          transcript, broadcasts, network_log, subscribers,
          alive, call, result, run_outcome, audit, returned,
          ledger, threads

vars == <<dra, rng, scheme, phase, schedule, current_time, commitments,
          transcript, broadcasts, network_log, subscribers,
          alive, call, result, run_outcome, audit, returned,
          ledger, threads>>

\* the fields of self
Self == [dra |-> dra, rng |-> rng, scheme |-> scheme, phase |-> phase,
         schedule |-> schedule, current_time |-> current_time,
         commitments |-> commitments, transcript |-> transcript,
         broadcasts |-> broadcasts, network_log |-> network_log,
         subscribers |-> subscribers]

Store(s) ==
    /\ dra' = s.dra
    /\ rng' = s.rng
    /\ scheme' = s.scheme
    /\ phase' = s.phase
    /\ schedule' = s.schedule
    /\ current_time' = s.current_time
    /\ commitments' = s.commitments
    /\ transcript' = s.transcript
    /\ broadcasts' = s.broadcasts
    /\ network_log' = s.network_log
    /\ subscribers' = s.subscribers
    /\ UNCHANGED <<ledger, threads>>

\* ProtocolError values, and the Ok(()) of the unit-valued operations
NoError == [name |-> "", participant |-> Auctioneer, requested |-> 0,
            current |-> 0, phase |-> ""]

Ok == [tag |-> "Ok", err |-> NoError]

Err(e) == [tag |-> "Err", err |-> e]

Panic == [tag |-> "Panic", err |-> NoError]

WrongPhase == [NoError EXCEPT !.name = "WrongPhase"]

DuplicateCommit(id) == [NoError EXCEPT !.name = "DuplicateCommit", !.participant = id]

DuplicateReveal(id) == [NoError EXCEPT !.name = "DuplicateReveal", !.participant = id]

MissingCommit(id) == [NoError EXCEPT !.name = "MissingCommit", !.participant = id]

ClockRewind(requested, current) ==
    [NoError EXCEPT !.name = "ClockRewind", !.requested = requested,
                    !.current = current]

DeadlineExceeded(p) == [NoError EXCEPT !.name = "DeadlineExceeded", !.phase = p]

AuditFailure == [NoError EXCEPT !.name = "AuditFailure"]

RECURSIVE Dedup(_, _)
\* the subscriber loop of new: push unless already contained
Dedup(acc, rest) ==
    IF rest = <<>> THEN acc
    ELSE Dedup(IF Contains(acc, Head(rest)) THEN acc ELSE Append(acc, Head(rest)),
               Tail(rest))

ParticipantLists == {<<Real(0), Auctioneer, Real(0)>>}

Schedules == [commit_deadline : Times, reveal_deadline : Times]

\* ProtocolSession::new
Init ==
    /\ dra \in [reserve : Reserves]
    /\ rng \in [seed : Seeds, pos : {0}]
    /\ scheme \in Schemes
    /\ phase = "Commit"
    /\ schedule \in Schedules
    /\ current_time = 0
    /\ commitments = <<>>
    /\ transcript = [commitments |-> <<>>, reveals |-> <<>>, broadcasts |-> <<>>,
                     timings |-> schedule, outcome |-> <<>>]
    /\ broadcasts = <<>>
    /\ network_log = <<>>
    /\ subscribers \in {Dedup(<<Auctioneer>>, p) : p \in ParticipantLists}
    /\ alive = TRUE
    /\ call = [op |-> "new"]
    /\ result = Ok
    /\ run_outcome = <<>>
    /\ audit = <<>>
    /\ returned = <<>>
    /\ ledger = NewLedger
    /\ threads = <<>>

\* a delivery that reaches the first subscriber only
deliver_payload_first_only(s, sender, payload) ==
    [s EXCEPT !.network_log =
        @ \o [k \in 1 .. 1 |->
                [sender |-> sender, recipient |-> s.subscribers[k],
                 phase |-> s.phase, payload |-> payload]]]

deliver_payload(s, sender, payload) ==
    [s EXCEPT !.network_log =
        @ \o [k \in 1 .. Len(s.subscribers) |->
                [sender |-> sender, recipient |-> s.subscribers[k],
                 phase |-> s.phase, payload |-> payload]]]

\* every caller passes Some(payload)
log_broadcast(s, sender, message, payload) ==
    deliver_payload(
        [s EXCEPT !.broadcasts =
            Append(@, [timestamp |-> s.current_time, sender |-> sender,
                       message |-> message])],
        sender, payload)

ensure_subscriber(s, participant) ==
    IF Contains(s.subscribers, participant) THEN s
    ELSE [s EXCEPT !.subscribers = Append(@, participant)]

\* transition_to_phase that forgets to log the transition
transition_to_phase_unlogged(s, next, reason) ==
    IF \/ (s.phase = "Commit" /\ next = "Reveal")
       \/ (s.phase = "Reveal" /\ next = "Resolved")
    THEN [s |-> [s EXCEPT !.phase = next], r |-> Ok]
    ELSE IF \/ (s.phase = "Reveal" /\ next = "Reveal")
            \/ (s.phase = "Resolved" /\ next = "Resolved")
    THEN [s |-> s, r |-> Ok]
    ELSE [s |-> s, r |-> Err(WrongPhase)]

\* returns the session and the Result
transition_to_phase(s, next, reason) ==
    IF \/ (s.phase = "Commit" /\ next = "Reveal")
       \/ (s.phase = "Reveal" /\ next = "Resolved")
    THEN [s |-> log_broadcast([s EXCEPT !.phase = next], Auctioneer,
                              PhaseTransition(next, reason),
                              [type |-> "EndPhase", phase |-> next]),
          r |-> Ok]
    ELSE IF \/ (s.phase = "Reveal" /\ next = "Reveal")
            \/ (s.phase = "Resolved" /\ next = "Resolved")
    THEN [s |-> s, r |-> Ok]
    ELSE [s |-> s, r |-> Err(WrongPhase)]

\* the drivers of the repository abandon a session at its first Err
Driving == alive /\ result.tag = "Ok"

Returns(op, r) ==
    /\ call' = op
    /\ result' = r
    /\ UNCHANGED <<alive, run_outcome, audit, returned>>

\* advance_to that also rejects now = current_time
advance_to_strict(s, now) ==
    IF now <= s.current_time
    THEN [s |-> s, r |-> Err(ClockRewind(now, s.current_time))]
    ELSE LET s1 == [s EXCEPT !.current_time = now]
             t1 == IF s1.phase = "Commit" /\ now >= s1.schedule.commit_deadline
                   THEN transition_to_phase(s1, "Reveal", "Deadline")
                   ELSE [s |-> s1, r |-> Ok]
         IN IF t1.s.phase = "Reveal" /\ now >= t1.s.schedule.reveal_deadline
            THEN transition_to_phase(t1.s, "Resolved", "Deadline")
            ELSE t1

\* advance_to that closes a phase only after its deadline has passed
advance_to_late(s, now) ==
    IF now < s.current_time
    THEN [s |-> s, r |-> Err(ClockRewind(now, s.current_time))]
    ELSE LET s1 == [s EXCEPT !.current_time = now]
             t1 == IF s1.phase = "Commit" /\ now > s1.schedule.commit_deadline
                   THEN transition_to_phase(s1, "Reveal", "Deadline")
                   ELSE [s |-> s1, r |-> Ok]
         IN IF t1.s.phase = "Reveal" /\ now > t1.s.schedule.reveal_deadline
            THEN transition_to_phase(t1.s, "Resolved", "Deadline")
            ELSE t1

advance_to(s, now) ==
    IF now < s.current_time
    THEN [s |-> s, r |-> Err(ClockRewind(now, s.current_time))]
    ELSE LET s1 == [s EXCEPT !.current_time = now]
             t1 == IF s1.phase = "Commit" /\ now >= s1.schedule.commit_deadline
                   THEN transition_to_phase(s1, "Reveal", "Deadline")
                   ELSE [s |-> s1, r |-> Ok]
             t2 == IF t1.r.tag = "Err" THEN t1
                   ELSE IF t1.s.phase = "Reveal"
                           /\ now >= t1.s.schedule.reveal_deadline
                   THEN transition_to_phase(t1.s, "Resolved", "Deadline")
                   ELSE t1
         IN t2

AdvanceTo(now) ==
    /\ Driving
    /\ LET t == advance_to(Self, now)
       IN /\ Store(t.s)
          /\ Returns([op |-> "advance_to", now |-> now], t.r)

\* the success path of commit_internal
DoCommit(s, id, bid, collateral, will_reveal) ==
    LET c == SchemeCommit(s.scheme, bid, s.rng)
        s1 == ensure_subscriber([s EXCEPT !.rng = c.rng], id)
        s2 == [s1 EXCEPT !.transcript.commitments =
                   Append(@, [participant |-> id, commitment |-> c.commitment,
                              timestamp |-> s1.current_time])]
        s3 == log_broadcast(s2, id, CommitmentPublished,
                            [type |-> "Commitment", from |-> id])
    IN [s |-> [s3 EXCEPT !.commitments =
                   Append(@, [participant |-> id, commitment |-> c.commitment,
                              opening |-> c.opening, collateral |-> collateral,
                              will_reveal |-> will_reveal])],
        r |-> Ok]

\* commit_internal without the phase guard
commit_internal_no_phase(s, id, bid, collateral, will_reveal) ==
    IF s.current_time >= s.schedule.commit_deadline
    THEN [s |-> s, r |-> Err(DeadlineExceeded("Commit"))]
    ELSE IF \E k \in 1 .. Len(s.commitments) : s.commitments[k].participant = id
    THEN [s |-> s, r |-> Err(DuplicateCommit(id))]
    ELSE DoCommit(s, id, bid, collateral, will_reveal)

\* commit_internal without the deadline guard
commit_internal_no_deadline(s, id, bid, collateral, will_reveal) ==
    IF s.phase # "Commit" THEN [s |-> s, r |-> Err(WrongPhase)]
    ELSE IF \E k \in 1 .. Len(s.commitments) : s.commitments[k].participant = id
    THEN [s |-> s, r |-> Err(DuplicateCommit(id))]
    ELSE DoCommit(s, id, bid, collateral, will_reveal)

\* commit_internal without the duplicate guard
commit_internal_no_duplicate(s, id, bid, collateral, will_reveal) ==
    IF s.phase # "Commit" THEN [s |-> s, r |-> Err(WrongPhase)]
    ELSE IF s.current_time >= s.schedule.commit_deadline
    THEN [s |-> s, r |-> Err(DeadlineExceeded("Commit"))]
    ELSE DoCommit(s, id, bid, collateral, will_reveal)

commit_internal(s, id, bid, collateral, will_reveal) ==
    IF s.phase # "Commit" THEN [s |-> s, r |-> Err(WrongPhase)]
    ELSE IF s.current_time >= s.schedule.commit_deadline
    THEN [s |-> s, r |-> Err(DeadlineExceeded("Commit"))]
    ELSE IF \E k \in 1 .. Len(s.commitments) : s.commitments[k].participant = id
    THEN [s |-> s, r |-> Err(DuplicateCommit(id))]
    ELSE DoCommit(s, id, bid, collateral, will_reveal)

\* the commitment table is a Vec without limit: the number of identities
\* it holds is capped here
Room(t) ==
    t.r.tag = "Ok" =>
        Cardinality({t.s.commitments[k].participant :
                        k \in 1 .. Len(t.s.commitments)}) <= MaxCommits

CommitReal(buyer_idx, bid, collateral) ==
    /\ Driving
    /\ LET t == commit_internal(Self, Real(buyer_idx), bid, collateral, TRUE)
       IN /\ Room(t)
          /\ Store(t.s)
          /\ Returns([op |-> "commit_real", id |-> Real(buyer_idx), bid |-> bid,
                      will_reveal |-> TRUE], t.r)

CommitFalse(idx, bid, collateral, reveal) ==
    /\ Driving
    /\ LET t == commit_internal(Self, False(idx), bid, collateral, reveal)
       IN /\ Room(t)
          /\ Store(t.s)
          /\ Returns([op |-> "commit_false", id |-> False(idx), bid |-> bid,
                      will_reveal |-> reveal], t.r)

end_commit_phase(s) ==
    IF s.phase # "Commit" THEN [s |-> s, r |-> Err(WrongPhase)]
    ELSE transition_to_phase(s, "Reveal", "Manual")

EndCommitPhase ==
    /\ Driving
    /\ LET t == end_commit_phase(Self)
       IN /\ Store(t.s)
          /\ Returns([op |-> "end_commit_phase"], t.r)

\* the success path of reveal, idx being the table position of id
DoReveal(s, id, idx) ==
    LET c == s.commitments[idx]
        reveals_ok == SchemeVerify(s.scheme, c.commitment, c.opening)
        s1 == [s EXCEPT !.transcript.reveals =
                  Append(@, [participant |-> id, revealed |-> reveals_ok,
                             opening |-> IF reveals_ok THEN <<c.opening>> ELSE <<>>,
                             timestamp |-> s.current_time])]
    IN [s |-> log_broadcast(s1, c.participant, RevealPublished(reveals_ok),
                            [type |-> "Reveal", from |-> c.participant,
                             success |-> reveals_ok]),
        r |-> Ok]

\* reveal that looks the commitment up before it checks the phase
reveal_lookup_first(s, id) ==
    LET idx == PositionOf(s.commitments, id)
    IN IF idx = 0 THEN [s |-> s, r |-> Err(MissingCommit(id))]
       ELSE IF s.phase # "Reveal" THEN [s |-> s, r |-> Err(WrongPhase)]
       ELSE IF s.current_time >= s.schedule.reveal_deadline
       THEN [s |-> s, r |-> Err(DeadlineExceeded("Reveal"))]
       ELSE IF \E k \in 1 .. Len(s.transcript.reveals) :
                    s.transcript.reveals[k].participant = id
       THEN [s |-> s, r |-> Err(DuplicateReveal(id))]
       ELSE DoReveal(s, id, idx)

\* reveal without the duplicate guard
reveal_no_duplicate(s, id) ==
    LET idx == PositionOf(s.commitments, id)
    IN IF s.phase # "Reveal" THEN [s |-> s, r |-> Err(WrongPhase)]
       ELSE IF s.current_time >= s.schedule.reveal_deadline
       THEN [s |-> s, r |-> Err(DeadlineExceeded("Reveal"))]
       ELSE IF idx = 0 THEN [s |-> s, r |-> Err(MissingCommit(id))]
       ELSE DoReveal(s, id, idx)

reveal(s, id) ==
    LET idx == PositionOf(s.commitments, id)
    IN IF s.phase # "Reveal" THEN [s |-> s, r |-> Err(WrongPhase)]
       ELSE IF s.current_time >= s.schedule.reveal_deadline
       THEN [s |-> s, r |-> Err(DeadlineExceeded("Reveal"))]
       ELSE IF idx = 0 THEN [s |-> s, r |-> Err(MissingCommit(id))]
       ELSE IF \E k \in 1 .. Len(s.transcript.reveals) :
                    s.transcript.reveals[k].participant = id
       THEN [s |-> s, r |-> Err(DuplicateReveal(id))]
       ELSE DoReveal(s, id, idx)

Reveal(id) ==
    /\ Driving
    /\ LET t == reveal(Self, id)
       IN /\ Store(t.s)
          /\ Returns([op |-> "reveal", id |-> id], t.r)

\* the reveal event of pid, as Iterator::find sees it: 0 for None
FindReveal(s, pid) == PositionOf(s.transcript.reveals, pid)

\* the first loop when it lets the commit-time intent veto a recorded reveal
ApplyReveals_keep_intent(s) ==
    [s EXCEPT !.commitments =
        [k \in 1 .. Len(s.commitments) |->
            LET r == FindReveal(s, s.commitments[k].participant)
            IN [s.commitments[k] EXCEPT !.will_reveal =
                    IF r # 0 THEN @ /\ s.transcript.reveals[r].revealed ELSE FALSE]]]

\* "Apply reveals": the will_reveal column after the first loop
ApplyReveals(s) ==
    [s EXCEPT !.commitments =
        [k \in 1 .. Len(s.commitments) |->
            LET r == FindReveal(s, s.commitments[k].participant)
            IN [s.commitments[k] EXCEPT !.will_reveal =
                    IF r # 0 THEN s.transcript.reveals[r].revealed ELSE FALSE]]]

RECURSIVE Missing(_, _)
\* the committed identities without reveal event, in commitment order
Missing(s, k) ==
    IF k > Len(s.commitments) THEN <<>>
    ELSE (IF FindReveal(s, s.commitments[k].participant) = 0
          THEN <<s.commitments[k].participant>> ELSE <<>>)
         \o Missing(s, k + 1)

RECURSIVE RecordTimeouts(_, _)
RecordTimeouts(s, missing) ==
    IF missing = <<>> THEN s
    ELSE LET pid == Head(missing)
             s1 == [s EXCEPT !.transcript.reveals =
                       Append(@, [participant |-> pid, revealed |-> FALSE,
                                  opening |-> <<>>, timestamp |-> s.current_time])]
         IN RecordTimeouts(log_broadcast(s1, Auctioneer, Timeout("Reveal", pid),
                                         [type |-> "Timeout", target |-> pid]),
                           Tail(missing))

RECURSIVE SelectKind(_, _, _)
\* the commitments of one kind of identity, in table order
SelectKind(table, kind, k) ==
    IF k > Len(table) THEN <<>>
    ELSE (IF table[k].participant.kind = kind THEN <<table[k]>> ELSE <<>>)
         \o SelectKind(table, kind, k + 1)

\* "Prepare inputs for core DRA"
real_bids(s) ==
    LET t == SelectKind(s.commitments, "Real", 1)
    IN [k \in 1 .. Len(t) |-> t[k].opening.bid]

real_reveals(s) ==
    LET t == SelectKind(s.commitments, "Real", 1)
    IN [k \in 1 .. Len(t) |-> t[k].will_reveal]

false_bids(s) ==
    LET t == SelectKind(s.commitments, "False", 1)
    IN [k \in 1 .. Len(t) |-> [bid |-> t[k].opening.bid, reveal |-> t[k].will_reveal]]

\* self after the timeouts are recorded, right before the auction runs
BeforeAuction(s) ==
    LET t == transition_to_phase(s, "Resolved", "Manual")
    IN RecordTimeouts(ApplyReveals(t.s), Missing(t.s, 1))

\* the transcript handed to the final audit
MergedTranscript(s, entropy) ==
    LET run == RunAuction(s.dra.reserve, real_bids(s), false_bids(s),
                          <<real_reveals(s)>>, entropy, s.scheme)
    IN [run.transcript EXCEPT !.commitments = s.transcript.commitments,
                              !.reveals = s.transcript.reveals,
                              !.broadcasts = s.broadcasts,
                              !.timings = s.schedule]

\* end_reveal_and_resolve takes self by value: the session is gone afterwards
EndRevealAndResolve ==
    /\ Driving
    /\ alive' = FALSE
    /\ call' = [op |-> "end_reveal_and_resolve"]
    /\ IF phase # "Reveal"
       THEN /\ result' = Err(WrongPhase)
            /\ UNCHANGED <<run_outcome, audit, returned>>
            /\ Store(Self)
       ELSE LET s == BeforeAuction(Self)
            IN /\ Store(s)
               /\ IF validate_inputs(Len(real_bids(s))).tag = "Err"
                  THEN /\ result' = Panic
                       /\ UNCHANGED <<run_outcome, audit, returned>>
                  ELSE \E e \in EntropySeeds :
                         LET t == MergedTranscript(s, [seed |-> e, pos |-> 0])
                             a == audit_transcript(t, s.scheme)
                         IN /\ run_outcome' = t.outcome
                            /\ audit' = <<a>>
                            /\ IF a.tag = "Err"
                               THEN /\ result' = Err(AuditFailure)
                                    /\ returned' = <<>>
                               ELSE /\ result' = Ok
                                    /\ returned' =
                                          <<[outcome |-> t.outcome[1],
                                             transcript |-> t,
                                             network_log |-> s.network_log]>>

Next ==
    \/ \E now \in Times : AdvanceTo(now)
    \/ \E i \in 0 .. NumReal - 1, bid \in Bids, c \in PostedCollaterals :
          CommitReal(i, bid, c)
    \/ \E j \in 0 .. NumFalse - 1, bid \in Bids, c \in PostedCollaterals,
          reveal_flag \in BOOLEAN :
          CommitFalse(j, bid, c, reveal_flag)
    \/ EndCommitPhase
    \/ \E id \in ParticipantId : Reveal(id)
    \/ EndRevealAndResolve

Spec == Init /\ [][Next]_vars

\* ------------------------------------------- sessions with one more commit
WideCommits == MaxCommits + 1

RoomWide(t) ==
    t.r.tag = "Ok" =>
        Cardinality({t.s.commitments[k].participant :
                        k \in 1 .. Len(t.s.commitments)}) <= WideCommits

CommitRealWide(buyer_idx, bid, collateral) ==
    /\ Driving
    /\ LET t == commit_internal(Self, Real(buyer_idx), bid, collateral, TRUE)
       IN /\ RoomWide(t)
          /\ Store(t.s)
          /\ Returns([op |-> "commit_real", id |-> Real(buyer_idx), bid |-> bid,
                      will_reveal |-> TRUE], t.r)

CommitFalseWide(idx, bid, collateral, reveal_flag) ==
    /\ Driving
    /\ LET t == commit_internal(Self, False(idx), bid, collateral, reveal_flag)
       IN /\ RoomWide(t)
          /\ Store(t.s)
          /\ Returns([op |-> "commit_false", id |-> False(idx), bid |-> bid,
                      will_reveal |-> reveal_flag], t.r)

NextWide ==
    \/ \E now \in Times : AdvanceTo(now)
    \/ \E i \in 0 .. NumReal - 1, bid \in Bids, c \in PostedCollaterals :
          CommitRealWide(i, bid, c)
    \/ \E j \in 0 .. NumFalse - 1, bid \in Bids, c \in PostedCollaterals,
          reveal_flag \in BOOLEAN :
          CommitFalseWide(j, bid, c, reveal_flag)
    \/ EndCommitPhase
    \/ \E id \in ParticipantId : Reveal(id)
    \/ EndRevealAndResolve

SpecWide == Init /\ [][NextWide]_vars

\* ------------------------------------------- the one-shot resolution alone
\* amounts for the one-shot run: valuations below the reserve, at it and
\* twice above it; false bids that tie with a valuation or whose encoding
\* does not fit MinRangeBits
RunReserves == {GridPerUnit * 10}
RunBids == {GridPerUnit * 9, GridPerUnit * 10, GridPerUnit * 12, GridPerUnit * 15}
FalseAmounts == {GridPerUnit * 12, GridPerUnit * 300}

SeqsUpTo(S, n) == UNION {[1 .. m -> S] : m \in 0 .. n}

Valuations == SeqsUpTo(RunBids, MaxBuyers)
FalseBidLists == SeqsUpTo([bid : FalseAmounts, reveal : BOOLEAN], NumFalse)

\* Option<&[bool]>: None, or one flag per valuation
RealRevealOptions(n) == {<<>>} \cup {<<r>> : r \in [1 .. n -> BOOLEAN]}

EmptyTranscript ==
    [commitments |-> <<>>, reveals |-> <<>>, broadcasts |-> <<>>,
     timings |-> [commit_deadline |-> 0, reveal_deadline |-> 0],
     outcome |-> <<>>]

\* a PublicBroadcastDRA, a scheme and a seed, before any call
InitRun ==
    /\ dra \in [reserve : RunReserves]
    /\ rng \in [seed : Seeds, pos : {0}]
    /\ scheme \in Schemes
    /\ phase = "Commit"
    /\ schedule = [commit_deadline |-> 0, reveal_deadline |-> 0]
    /\ current_time = 0
    /\ commitments = <<>>
    /\ transcript = EmptyTranscript
    /\ broadcasts = <<>>
    /\ network_log = <<>>
    /\ subscribers = <<>>
    /\ alive = TRUE
    /\ call = [op |-> "new"]
    /\ result = Ok
    /\ run_outcome = <<>>
    /\ audit = <<>>
    /\ returned = <<>>
    /\ ledger = NewLedger
    /\ threads = <<>>

\* one call of run_with_false_bids_using_scheme_with_transcript with
\* Some(seed); commitments holds the CommitmentRecords of the call
RunWithFalseBids(vals, fbs, reveals) ==
    /\ call.op = "new"
    /\ call' = [op |-> "run_with_false_bids", valuations |-> vals,
                false_bids |-> fbs, real_reveals |-> reveals]
    /\ IF validate_inputs(Len(vals)).tag = "Err"
       THEN /\ result' = Panic
            /\ UNCHANGED <<commitments, transcript, run_outcome>>
       ELSE LET run == RunAuction(dra.reserve, vals, fbs, reveals,
                                  rng, scheme)
            IN /\ result' = Ok
               /\ commitments' = run.records
               /\ transcript' = run.transcript
               /\ run_outcome' = <<run.outcome>>
    /\ UNCHANGED <<dra, rng, scheme, phase, schedule, current_time, broadcasts,
                   network_log, subscribers, alive, audit, returned,
                   ledger, threads>>

NextRun ==
    /\ call.op = "new"
    /\ \E vals \in Valuations, fbs \in FalseBidLists :
          \E reveals \in RealRevealOptions(Len(vals)) :
              RunWithFalseBids(vals, fbs, reveals)

SpecRun == InitRun /\ [][NextRun]_vars

\* --------------------------------------------------- the tie-break rank
\* usize indices: the first few, and the ones around the rank of False(0)
RankIndices ==
    (0 .. RankSpread) \cup (FalseTieRankBase - RankSpread .. FalseTieRankBase)

RankedIds ==
    {Auctioneer} \cup {Real(i) : i \in RankIndices} \cup {False(j) : j \in RankIndices}

\* tie_rank of two identities, side by side
TieRank(a, b) ==
    /\ call.op = "new"
    /\ call' = [op |-> "tie_rank", a |-> a, b |-> b,
                rank_a |-> tie_rank(a), rank_b |-> tie_rank(b)]
    /\ UNCHANGED <<dra, rng, scheme, phase, schedule, current_time, commitments,
                   transcript, broadcasts, network_log, subscribers, alive,
                   result, run_outcome, audit, returned,
                   ledger, threads>>

NextRank == \E a \in RankedIds, b \in RankedIds : TieRank(a, b)

SpecRank == InitRun /\ [][NextRank]_vars

\* ------------------------------------------ the resolution phase alone
\* identities a valid-bid set can name: the first buyers and shills, and
\* the buyer whose index is the rank offset of the shills
ResolveIds == {Real(0), Real(1), Real(FalseTieRankBase), False(0), False(1)}

ResolveBids == {GridPerUnit * 12, GridPerUnit * 15}

\* the run pushes real buyers in index order, then false bids in index order
RunOrder(a, b) ==
    \/ (a.kind = "Real" /\ b.kind = "False")
    \/ (a.kind = b.kind /\ a.idx < b.idx)

ValidBidSets ==
    {vb \in SeqsUpTo(ResolveIds \X ResolveBids, MaxValid) :
        \A u, v \in 1 .. Len(vb) : u < v => RunOrder(vb[u][1], vb[v][1])}

\* the "Resolution phase" block on a valid-bid set; nothing is forfeited
ResolveValid(valid_bids) ==
    /\ call.op = "new"
    /\ call' = [op |-> "resolve", valid_bids |-> valid_bids]
    /\ run_outcome' = <<Outcome(dra.reserve, collateral_requirement(1, dra.reserve),
                                valid_bids, 0)>>
    /\ UNCHANGED <<dra, rng, scheme, phase, schedule, current_time, commitments,
                   transcript, broadcasts, network_log, subscribers, alive,
                   result, audit, returned,
                   ledger, threads>>

NextResolve ==
    /\ call.op = "new"
    /\ \E vb \in ValidBidSets : ResolveValid(vb)

SpecResolve == InitRun /\ [][NextResolve]_vars

\* ------------------------------------------- audit_transcript on its own
\* amounts of the audited runs: one that both schemes open and one whose
\* encoding does not fit MinRangeBits
AuditBids == {GridPerUnit * 12, GridPerUnit * 300}

AuditValuations == SeqsUpTo(AuditBids, NumReal) \ {<<>>}

AuditFalseBids == SeqsUpTo([bid : {GridPerUnit * 12}, reveal : BOOLEAN], NumFalse)

\* what the one-shot run returns for this dra, scheme and seed
AuditedRuns ==
    {RunAuction(dra.reserve, vals, fbs, <<>>, rng, scheme) :
        vals \in AuditValuations, fbs \in AuditFalseBids}

\* RevealEvent values a caller can put in place of the k-th one: the fields
\* are public. The participant is the recorded one, the next committer or
\* one that never committed; the opening is absent, the participant's own or
\* the next committer's; the timestamp is the recorded one, one before the
\* commit deadline or one after the reveal deadline
ForgedReveals(run, k) ==
    LET rev == run.transcript.reveals[k]
        total == Len(run.records)
        other == run.records[(k % total) + 1]
    IN [participant : {rev.participant, other.id, False(NumFalse)},
        revealed : BOOLEAN,
        opening : {<<>>, <<run.records[k].opening>>, <<other.opening>>},
        timestamp : {rev.timestamp, 0, run.transcript.timings.reveal_deadline + 1}]

RemoveAt(s, v) == [k \in 1 .. Len(s) - 1 |-> IF k < v THEN s[k] ELSE s[k + 1]]

\* Option<AuctionOutcome> values a caller can put in place of the outcome:
\* the run's, None, or the run's with one valid bid taken out
EditedOutcomes(run) ==
    {run.transcript.outcome, <<>>}
    \cup {<<[run.outcome EXCEPT !.valid_bids = RemoveAt(@, v)]>> :
            v \in 1 .. Len(run.outcome.valid_bids)}

\* the run's transcript, with at most one reveal event and the outcome edited
EditedTranscripts(run) ==
    LET t == run.transcript
    IN {[t EXCEPT !.outcome = o] : o \in EditedOutcomes(run)}
       \cup UNION {{[t EXCEPT !.reveals[k] = ev, !.outcome = o] :
                        ev \in ForgedReveals(run, k), o \in EditedOutcomes(run)} :
                   k \in 1 .. Len(t.reveals)}

\* one call of audit_transcript(&t, &mut scheme); commitments and run_outcome
\* keep what the run itself produced
AuditTranscript(run, t) ==
    /\ call.op = "new"
    /\ call' = [op |-> "audit_transcript"]
    /\ commitments' = run.records
    /\ run_outcome' = <<run.outcome>>
    /\ transcript' = t
    /\ audit' = <<audit_transcript(t, scheme)>>
    /\ UNCHANGED <<dra, rng, scheme, phase, schedule, current_time, broadcasts,
                   network_log, subscribers, alive, result, returned,
                   ledger, threads>>

NextAudit ==
    /\ call.op = "new"
    /\ \E run \in AuditedRuns : \E t \in EditedTranscripts(run) :
          AuditTranscript(run, t)

SpecAudit == InitRun /\ [][NextAudit]_vars

\* ------------------------- audit_transcript: outcome, timings, commit events
\* PhaseTimings a caller can put in place of the run's: the reveal deadline
\* kept, moved onto the commit deadline, or moved before it
TimingEdits(t) ==
    {t.timings,
     [t.timings EXCEPT !.reveal_deadline = t.timings.commit_deadline],
     [t.timings EXCEPT !.reveal_deadline = t.timings.commit_deadline - 1]}

\* commit events with at most one timestamp replaced by 0, the commit
\* deadline or the tick after it
CommitStampEdits(t) ==
    {t.commitments}
    \cup {[t.commitments EXCEPT ![k].timestamp = ts] :
            k \in 1 .. Len(t.commitments),
            ts \in {0, t.timings.commit_deadline, t.timings.commit_deadline + 1}}

CommitEdits(run) ==
    LET t == run.transcript
    IN {[t EXCEPT !.outcome = o, !.timings = tm, !.commitments = cs] :
            o \in {t.outcome, <<>>}, tm \in TimingEdits(t),
            cs \in CommitStampEdits(t)}

NextAuditCommits ==
    /\ call.op = "new"
    /\ \E run \in AuditedRuns : \E t \in CommitEdits(run) :
          AuditTranscript(run, t)

SpecAuditCommits == InitRun /\ [][NextAuditCommits]_vars


\* ------------------------ audit_transcript: several commit events per identity
\* a second CommitmentEvent for the k-th committer, carrying the commitment
\* of the j-th record
DuplicateCommitEvent(run, k, j, ts) ==
    [participant |-> run.records[k].id,
     commitment |-> run.records[j].commitment, timestamp |-> ts]

\* the run's transcript, or the transcript with a second commit event for
\* one identity put behind the recorded ones (stamped commit_deadline) or in
\* front of them (stamped 0), the reveal event of that identity carrying its
\* own opening or the opening of the j-th record
DuplicateCommitEdits(run) ==
    LET t == run.transcript
        total == Len(run.records)
        cd == t.timings.commit_deadline
    IN {t}
       \cup UNION {
              {[t EXCEPT !.commitments = cs, !.reveals[k].opening = o] :
                  cs \in {Append(t.commitments, DuplicateCommitEvent(run, k, j, cd)),
                          <<DuplicateCommitEvent(run, k, j, 0)>> \o t.commitments},
                  o \in {t.reveals[k].opening} \cup
                        (IF t.reveals[k].revealed
                         THEN {<<run.records[j].opening>>} ELSE {})} :
              k \in 1 .. total, j \in 1 .. total}

NextAuditDuplicates ==
    /\ call.op = "new"
    /\ \E run \in AuditedRuns : \E t \in DuplicateCommitEdits(run) :
          AuditTranscript(run, t)

SpecAuditDuplicates == InitRun /\ [][NextAuditDuplicates]_vars

\* --------------------------------------- audit_transcript: broadcast events
\* BroadcastEvent values a caller can put in place of the i-th one: any
\* message kind, stamped as recorded or on, one before or one after either
\* deadline; a Timeout names the first committer
ForgedBroadcasts(run, i) ==
    LET ev == run.transcript.broadcasts[i]
        cd == run.transcript.timings.commit_deadline
        rd == run.transcript.timings.reveal_deadline
        p == run.records[1].id
    IN [timestamp : {ev.timestamp, cd - 1, cd, cd + 1, rd - 1, rd, rd + 1},
        sender : {ev.sender},
        message : {ev.message, CommitmentPublished, RevealPublished(TRUE),
                   Timeout("Commit", p), Timeout("Reveal", p),
                   PhaseTransition("Commit", "Manual"),
                   PhaseTransition("Reveal", "Manual"),
                   PhaseTransition("Resolved", "Manual")}]

\* the run's transcript with at most one broadcast event replaced
BroadcastEdits(run) ==
    LET t == run.transcript
    IN {t} \cup UNION {{[t EXCEPT !.broadcasts[i] = ev] :
                            ev \in ForgedBroadcasts(run, i)} :
                       i \in 1 .. Len(t.broadcasts)}

NextAuditBroadcasts ==
    /\ call.op = "new"
    /\ \E run \in AuditedRuns : \E t \in BroadcastEdits(run) :
          AuditTranscript(run, t)

SpecAuditBroadcasts == InitRun /\ [][NextAuditBroadcasts]_vars

\* ------------------------------------- log_entry from concurrent threads
\* threads that hold the ledger, a clone of it or a clone of an audited
\* scheme: every clone shares the one Arc<Mutex<Vec>>
ThreadIds == 1 .. NumThreads

\* the entry hash thread t logs: two threads may log the same bytes
EntryHashOf(t) == t % 2

\* AuditedNonMalleableCommitment::default(): Bulletproofs over 64 bits
AuditedScheme == [backend |-> "Audited", range_bits |-> 64]

\* an empty ledger and threads that have not called yet
InitThreads ==
    /\ dra \in [reserve : RunReserves]
    /\ rng \in [seed : Seeds, pos : {0}]
    /\ scheme = AuditedScheme
    /\ phase = "Commit"
    /\ schedule = [commit_deadline |-> 0, reveal_deadline |-> 0]
    /\ current_time = 0
    /\ commitments = <<>>
    /\ transcript = EmptyTranscript
    /\ broadcasts = <<>>
    /\ network_log = <<>>
    /\ subscribers = <<>>
    /\ alive = TRUE
    /\ call = [op |-> "new"]
    /\ result = Ok
    /\ run_outcome = <<>>
    /\ audit = <<>>
    /\ returned = <<>>
    /\ ledger = NewLedger
    /\ threads = [t \in ThreadIds |->
                    [pc |-> "idle", entry_hash |-> 0, root |-> ZeroRoot,
                     receipts |-> <<>>]]

\* Mutex::lock succeeds only on a mutex nobody holds
LockFree_unguarded(l) == TRUE

LockFree(l) == l.owner = 0

\* thread t enters log_entry(entry_hash)
CallLogEntry(t) ==
    /\ threads[t].pc = "idle"
    /\ Len(threads[t].receipts) < MaxAppends
    /\ threads' = [threads EXCEPT ![t].pc = "lock",
                                  ![t].entry_hash = EntryHashOf(t)]
    /\ UNCHANGED ledger

\* let mut guard = self.entries.lock()
LockEntries(t) ==
    /\ threads[t].pc = "lock"
    /\ LockFree(ledger)
    /\ ledger' = [ledger EXCEPT !.owner = t]
    /\ threads' = [threads EXCEPT ![t].pc = "push"]

\* guard.push(entry_hash)
PushEntry(t) ==
    /\ threads[t].pc = "push"
    /\ ledger' = [ledger EXCEPT !.entries = Append(@, threads[t].entry_hash)]
    /\ threads' = [threads EXCEPT ![t].pc = "root"]

\* let root = aggregate_root(&guard[..])
ComputeRoot(t) ==
    /\ threads[t].pc = "root"
    /\ threads' = [threads EXCEPT ![t].pc = "receipt",
                                  ![t].root = aggregate_root(ledger.entries)]
    /\ UNCHANGED ledger

\* the receipt is built from guard.len() and returned; the guard is dropped
ReturnReceipt(t) ==
    /\ threads[t].pc = "receipt"
    /\ threads' = [threads EXCEPT
            ![t].pc = "idle",
            ![t].receipts = Append(@, [index |-> Len(ledger.entries) - 1,
                                       root |-> threads[t].root,
                                       entry_hash |-> threads[t].entry_hash])]
    /\ ledger' = [ledger EXCEPT !.owner = 0]

ThreadStep(t) ==
    \/ CallLogEntry(t)
    \/ LockEntries(t)
    \/ PushEntry(t)
    \/ ComputeRoot(t)
    \/ ReturnReceipt(t)

NextThreads ==
    /\ \E t \in ThreadIds : ThreadStep(t)
    /\ UNCHANGED <<dra, rng, scheme, phase, schedule, current_time, commitments,
                   transcript, broadcasts, network_log, subscribers, alive,
                   call, result, run_outcome, audit, returned>>

SpecThreads == InitThreads /\ [][NextThreads]_vars

\* ------------------------------------- the backends and the ledger alone
PedersenScheme == [backend |-> "Pedersen", range_bits |-> 0]

FischlinScheme == [backend |-> "Fischlin", range_bits |-> 0]

AllSchemes == Schemes \cup {PedersenScheme, FischlinScheme, AuditedScheme}

\* bids half a grid step apart around 12, so that two of them share an
\* encoding, and one whose encoding does not fit MinRangeBits
SchemeBids ==
    {GridPerUnit * 12 - 1, GridPerUnit * 12, GridPerUnit * 13, GridPerUnit * 300}

\* the entry another audited scheme built on the same ledger logs for its
\* n-th commitment
ForeignEntry(n) ==
    LET c == BulletproofsCommit(AuditedScheme.range_bits, GridPerUnit * 13,
                                [seed |-> 99, pos |-> n])
    IN audit_entry_hash(c.commitment, c.opening)

\* a scheme, its ledger and a seeded rng, before any commitment
InitSchemes ==
    /\ dra \in [reserve : RunReserves]
    /\ rng \in [seed : Seeds, pos : {0}]
    /\ scheme \in AllSchemes
    /\ phase = "Commit"
    /\ schedule = [commit_deadline |-> 0, reveal_deadline |-> 0]
    /\ current_time = 0
    /\ commitments = <<>>
    /\ transcript = EmptyTranscript
    /\ broadcasts = <<>>
    /\ network_log = <<>>
    /\ subscribers = <<>>
    /\ alive = TRUE
    /\ call = [op |-> "new"]
    /\ result = Ok
    /\ run_outcome = <<>>
    /\ audit = <<>>
    /\ returned = <<>>
    /\ ledger = NewLedger
    /\ threads = <<>>

SchemeFrame ==
    UNCHANGED <<dra, scheme, phase, schedule, current_time, transcript,
                broadcasts, network_log, subscribers, alive, result,
                run_outcome, audit, returned, threads>>

\* scheme.commit(bid, &mut rng); commitments keeps the pairs the caller got
SchemeCommitCall(bid) ==
    /\ Len(commitments) < MaxEntries
    /\ Len(ledger.entries) < MaxEntries
    /\ LET c == BackendCommit(scheme, bid, rng, ledger.entries)
       IN /\ commitments' = Append(commitments, [commitment |-> c.commitment,
                                                 opening |-> c.opening])
          /\ rng' = c.rng
          /\ ledger' = [ledger EXCEPT !.entries = c.entries]
          /\ call' = [op |-> "commit", bid |-> bid]
    /\ SchemeFrame

\* Opening values a caller can hand to verify in place of the one commit
\* returned: the fields are public. The bid or the encoding is replaced, and
\* under the audited wrapper the receipt is dropped or one of its fields is
\* replaced
AlteredReceipts(r, entries) ==
    {[r EXCEPT !.index = i] : i \in 0 .. MaxEntries}
    \cup {[r EXCEPT !.root = aggregate_root(SubSeq(entries, 1, n))] :
            n \in 0 .. Len(entries)}
    \cup {[r EXCEPT !.entry_hash = h] :
            h \in {entries[n] : n \in 1 .. Len(entries)} \cup {ForeignEntry(0)}}

AlteredOpenings(o, entries) ==
    {[o EXCEPT !.bid = b] : b \in SchemeBids}
    \cup {[o EXCEPT !.bid = b, !.encoding = BidEncoding(b)] : b \in SchemeBids}
    \cup {[o EXCEPT !.encoding = BidEncoding(b)] : b \in SchemeBids}
    \cup (IF "audit_receipt" \in DOMAIN o
          THEN {[o EXCEPT !.audit_receipt = <<>>]}
               \cup {[o EXCEPT !.audit_receipt = <<r>>] :
                       r \in AlteredReceipts(o.audit_receipt[1], entries)}
          ELSE {})

\* scheme.verify(&commitment, &opening) for the k-th commitment
SchemeVerifyCall(k, opening) ==
    /\ call' = [op |-> "verify", k |-> k, opening |-> opening,
                ok |-> BackendVerify(scheme, commitments[k].commitment, opening,
                                     ledger.entries)]
    /\ UNCHANGED <<rng, commitments, ledger>>
    /\ SchemeFrame

\* ledger.log_entry(entry_hash) by another holder of the ledger
LogEntryCall(entry_hash) ==
    /\ scheme = AuditedScheme
    /\ Len(ledger.entries) < MaxEntries
    /\ LET logged == log_entry(ledger.entries, entry_hash)
       IN /\ ledger' = [ledger EXCEPT !.entries = logged.entries]
          /\ call' = [op |-> "log_entry", entry_hash |-> entry_hash,
                      receipt |-> logged.receipt]
    /\ UNCHANGED <<rng, commitments>>
    /\ SchemeFrame

\* receipts a caller can hand to ledger.verify
CandidateReceipts ==
    [index : 0 .. MaxEntries,
     root : {aggregate_root(SubSeq(ledger.entries, 1, n)) :
                n \in 0 .. Len(ledger.entries)},
     entry_hash : {ledger.entries[n] : n \in 1 .. Len(ledger.entries)}
                  \cup {ForeignEntry(0)}]

\* ledger.verify(&receipt)
LedgerVerifyCall(receipt) ==
    /\ scheme = AuditedScheme
    /\ call' = [op |-> "ledger_verify", receipt |-> receipt,
                ok |-> ledger_verify(ledger.entries, receipt)]
    /\ UNCHANGED <<rng, commitments, ledger>>
    /\ SchemeFrame

NextSchemes ==
    \/ \E bid \in SchemeBids : SchemeCommitCall(bid)
    \/ \E k \in 1 .. Len(commitments) :
          \E o \in {commitments[k].opening}
                    \cup AlteredOpenings(commitments[k].opening, ledger.entries) :
              SchemeVerifyCall(k, o)
    \/ \E n \in 0 .. 1 : LogEntryCall(ForeignEntry(n))
    \/ \E r \in CandidateReceipts : LedgerVerifyCall(r)

SpecSchemes == InitSchemes /\ [][NextSchemes]_vars

\* ------------------------------------- the same one-shot run made twice
RECURSIVE AuditedRecords(_, _, _, _, _, _)
\* the commitment loop under the audited wrapper: every commit logs an
\* entry on the ledger the scheme holds; the one-element sets bind the
\* result of the commit and of the rest of the loop once
AuditedRecords(items, k, range_bits, rng0, collateral, entries) ==
    IF k > Len(items) THEN [records |-> <<>>, entries |-> entries]
    ELSE CHOOSE out \in
           UNION {{[records |-> <<[id |-> items[k].id,
                                   commitment |-> c.commitment,
                                   opening |-> c.opening,
                                   posted_collateral |-> collateral,
                                   will_reveal |-> items[k].will_reveal]>>
                                \o rest.records,
                    entries |-> rest.entries] :
                      rest \in {AuditedRecords(items, k + 1, range_bits, c.rng,
                                               collateral, c.entries)}} :
                   c \in {AuditedCommit(range_bits, items[k].bid, rng0,
                                        entries)}} : TRUE

RECURSIVE ForfeitedCollateral(_, _, _)
ForfeitedCollateral(records, ok, k) ==
    IF k > Len(records) THEN 0
    ELSE (IF ok[k] THEN 0 ELSE records[k].posted_collateral)
         + ForfeitedCollateral(records, ok, k + 1)

RECURSIVE RevealedBids(_, _, _)
RevealedBids(records, ok, k) ==
    IF k > Len(records) THEN <<>>
    ELSE (IF ok[k] THEN <<<<records[k].id, records[k].opening.bid>>>> ELSE <<>>)
         \o RevealedBids(records, ok, k + 1)

\* the outcome and the transcript of the run under the audited wrapper, given
\* its CommitmentRecords and the result ok[k] of the reveal test of the k-th
\* one
AuditedResult(reserve, collateral, records, ok) ==
    LET total == Len(records)
        outcome == Outcome(reserve, collateral, RevealedBids(records, ok, 1),
                           ForfeitedCollateral(records, ok, 1))
    IN [outcome |-> outcome, records |-> records,
        transcript |->
          [commitments |->
              [k \in 1 .. total |->
                  [participant |-> records[k].id,
                   commitment |-> records[k].commitment, timestamp |-> k - 1]],
           reveals |->
              [k \in 1 .. total |->
                  [participant |-> records[k].id, revealed |-> ok[k],
                   opening |-> IF ok[k] THEN <<records[k].opening>> ELSE <<>>,
                   timestamp |-> total + k]],
           broadcasts |->
              [k \in 1 .. total |->
                  [timestamp |-> k - 1, sender |-> records[k].id,
                   message |-> CommitmentPublished]]
              \o <<[timestamp |-> total, sender |-> Auctioneer,
                    message |-> PhaseTransition("Reveal", "Manual")]>>
              \o [k \in 1 .. total |->
                    IF ok[k]
                    THEN [timestamp |-> total + k, sender |-> records[k].id,
                          message |-> RevealPublished(TRUE)]
                    ELSE [timestamp |-> total + k, sender |-> Auctioneer,
                          message |-> Timeout("Reveal", records[k].id)]]
              \o <<[timestamp |-> 2 * total + 1, sender |-> Auctioneer,
                    message |-> PhaseTransition("Resolved", "Manual")]>>,
           timings |-> [commit_deadline |-> total,
                        reveal_deadline |-> 2 * total + 1],
           outcome |-> <<outcome>>]]

\* the reveal loop: will_reveal && scheme.verify(..), on the ledger as the
\* commitment loop left it
AuditedReveals(range_bits, logged) ==
    [k \in 1 .. Len(logged.records) |->
        /\ logged.records[k].will_reveal
        /\ AuditedVerify(range_bits, logged.records[k].commitment,
                         logged.records[k].opening, logged.entries)]

\* run_with_false_bids_using_scheme_with_transcript under the audited
\* wrapper, for n >= 1 valuations, on a ledger that holds entries; the
\* one-element sets bind the result of each loop once
RunAudited(reserve, valuations, fbs, reveals, rng0, range_bits, entries) ==
    LET collateral == collateral_requirement(Len(valuations), reserve)
        items == AuctionEntries(valuations, fbs, reveals)
    IN CHOOSE run \in
         UNION {{[run |-> AuditedResult(reserve, collateral, logged.records,
                                        ok),
                  entries |-> logged.entries] :
                    ok \in {AuditedReveals(range_bits, logged)}} :
                 logged \in {AuditedRecords(items, 1, range_bits, rng0,
                                            collateral, entries)}} : TRUE

\* the run under any scheme of RepeatSchemes: what it returns, and the
\* ledger after it
RunOnLedger(reserve, valuations, fbs, reveals, rng0, s, entries) ==
    IF s.backend = "Audited"
    THEN RunAudited(reserve, valuations, fbs, reveals, rng0, s.range_bits,
                    entries)
    ELSE [run |-> RunAuction(reserve, valuations, fbs, reveals, rng0, s),
          entries |-> entries]

RepeatSchemes == Schemes \cup {AuditedScheme}

\* one bid below the reserve and one above
RepeatBids == {GridPerUnit * 9, GridPerUnit * 12}

RepeatValuations == SeqsUpTo(RepeatBids, NumReal) \ {<<>>}

RepeatFalseBids == SeqsUpTo([bid : {GridPerUnit * 12}, reveal : BOOLEAN], NumFalse)

InitRepeat ==
    /\ dra \in [reserve : RunReserves]
    /\ rng \in [seed : Seeds, pos : {0}]
    /\ scheme \in RepeatSchemes
    /\ phase = "Commit"
    /\ schedule = [commit_deadline |-> 0, reveal_deadline |-> 0]
    /\ current_time = 0
    /\ commitments = <<>>
    /\ transcript = EmptyTranscript
    /\ broadcasts = <<>>
    /\ network_log = <<>>
    /\ subscribers = <<>>
    /\ alive = TRUE
    /\ call = [op |-> "new"]
    /\ result = Ok
    /\ run_outcome = <<>>
    /\ audit = <<>>
    /\ returned = <<>>
    /\ ledger \in {NewLedger, [NewLedger EXCEPT !.entries = <<ForeignEntry(0)>>]}
    /\ threads = <<>>

RepeatFrame ==
    UNCHANGED <<dra, rng, scheme, phase, schedule, current_time, broadcasts,
                network_log, subscribers, alive, audit, result, threads>>

\* the first call with Some(seed); returned keeps what it gave back
FirstRun(vals, fbs, reveals) ==
    /\ call.op = "new"
    /\ \E done \in {RunOnLedger(dra.reserve, vals, fbs, reveals, rng, scheme,
                                 ledger.entries)} :
          /\ call' = [op |-> "run_with_false_bids", valuations |-> vals,
                      false_bids |-> fbs, real_reveals |-> reveals,
                      entries_before |-> ledger.entries]
          /\ returned' = <<[outcome |-> done.run.outcome,
                            transcript |-> done.run.transcript]>>
          /\ ledger' = [ledger EXCEPT !.entries = done.entries]
          /\ UNCHANGED <<commitments, transcript, run_outcome>>
    /\ RepeatFrame

\* the second call with the same seed, bids and flags: with the same scheme
\* object or a clone of it (same_ledger), or with a scheme whose own ledger
\* holds what the first one held before the first call
SecondRunFrom(same_ledger, rng0) ==
    /\ call.op = "run_with_false_bids"
    /\ \E done \in {RunOnLedger(dra.reserve, call.valuations,
                                 call.false_bids, call.real_reveals, rng0,
                                 scheme,
                                 IF same_ledger THEN ledger.entries
                                 ELSE call.entries_before)} :
          /\ call' = [op |-> "run_again", valuations |-> call.valuations,
                      false_bids |-> call.false_bids,
                      real_reveals |-> call.real_reveals,
                      same_ledger |-> same_ledger]
          /\ commitments' = done.run.records
          /\ transcript' = done.run.transcript
          /\ run_outcome' = <<done.run.outcome>>
          /\ ledger' = [ledger EXCEPT !.entries = done.entries]
          /\ UNCHANGED returned
    /\ RepeatFrame

\* a second call whose generator goes on where another one stopped
SecondRun_stream_not_reset(same_ledger) ==
    SecondRunFrom(same_ledger, RngStep(rng, 1))

\* StdRng::seed_from_u64(seed) again: the stream starts over
SecondRun(same_ledger) == SecondRunFrom(same_ledger, rng)

NextRepeat ==
    \/ \E vals \in RepeatValuations, fbs \in RepeatFalseBids :
          \E reveals \in RealRevealOptions(Len(vals)) :
              FirstRun(vals, fbs, reveals)
    \/ \E same_ledger \in BOOLEAN : SecondRun(same_ledger)

SpecRepeat == InitRepeat /\ [][NextRepeat]_vars

\* ----------------------------- verify on openings an adversary has edited
\* the assertions of BidEncoding::new: a bid below zero aborts the caller
BidEncodingAborts(bid) == bid < 0

\* 32 bytes with one bit changed: a block no generator of the model draws
FlipBit(bytes) == [bytes EXCEPT !.seed = 0 - 1 - @]

\* the Fischlin transcript with a bit changed in one of its three parts; a
\* response k + c * x with a bit changed is the response of another nonce
FlippedFischlin(proof) ==
    {[proof EXCEPT !.challenge.tag = "DRA-FISCHLIN-CHALLENGE, one bit changed"],
     [proof EXCEPT !.response_blind.k[1] = FlipBit(@)],
     [proof EXCEPT !.response_message.k[1] = FlipBit(@)]}

\* the range-proof payload with a bit changed in the proof blob, which no
\* verifier accepts any more, or in the blinding
FlippedBulletproof(bp) ==
    {[bp EXCEPT !.proof.sound = FALSE],
     [bp EXCEPT !.blinding = FlipBit(@)]}

\* the openings that differ from o in one field, with the name of the field
TamperedOpenings(o) ==
    {[field |-> "salt", opening |-> [o EXCEPT !.salt = FlipBit(@)]],
     [field |-> "mask", opening |-> [o EXCEPT !.mask = FlipBit(@)]],
     [field |-> "bid", opening |-> [o EXCEPT !.bid = 0 - GridPerUnit]],
     [field |-> "no proof", opening |->
        [f \in DOMAIN o |-> IF f \in {"proof", "bulletproof"} THEN <<>>
                            ELSE o[f]]]}
    \cup (IF "proof" \in DOMAIN o /\ o.proof # <<>>
          THEN {[field |-> "proof", opening |-> [o EXCEPT !.proof = <<p>>]] :
                   p \in FlippedFischlin(o.proof[1])}
          ELSE {})
    \cup (IF o.bulletproof # <<>>
          THEN {[field |-> "proof",
                 opening |-> [o EXCEPT !.bulletproof = <<bp>>]] :
                   bp \in FlippedBulletproof(o.bulletproof[1])}
          ELSE {})

\* what a call of scheme.verify does: it returns true or false, or aborts in
\* BidEncoding::new; the audited wrapper returns false for an opening
\* without receipt before it looks at the bid
VerifyOutcome(s, commitment, opening, entries) ==
    IF s.backend = "Audited" /\ opening.audit_receipt = <<>> THEN "false"
    ELSE IF BidEncodingAborts(opening.bid) THEN "abort"
    ELSE IF BackendVerify(s, commitment, opening, entries) THEN "true"
    ELSE "false"

\* scheme.verify(&commitment, &opening) for the k-th commitment and an
\* opening edited in one field, or not at all
TamperedVerifyCall(k, field, opening) ==
    /\ call' = [op |-> "verify", k |-> k, field |-> field, opening |-> opening,
                outcome |-> VerifyOutcome(scheme, commitments[k].commitment,
                                          opening, ledger.entries)]
    /\ UNCHANGED <<rng, commitments, ledger>>
    /\ SchemeFrame

NextTamper ==
    \/ \E bid \in SchemeBids : SchemeCommitCall(bid)
    \/ \E k \in 1 .. Len(commitments) :
          \E t \in {[field |-> "none", opening |-> commitments[k].opening]}
                    \cup TamperedOpenings(commitments[k].opening) :
              TamperedVerifyCall(k, t.field, t.opening)

SpecTamper == InitSchemes /\ [][NextTamper]_vars

\* ================================================================ claims
Committed(id) == \E k \in 1 .. Len(commitments) : commitments[k].participant = id

HasBroadcast(sender, message) ==
    \E k \in 1 .. Len(broadcasts) :
        broadcasts[k].sender = sender /\ broadcasts[k].message = message

WellFormed == 0 < schedule.commit_deadline
              /\ schedule.commit_deadline <= schedule.reveal_deadline

\* real buyers 0..n-1, n >= 1, are the committed identities, in index order
IndexOrderCommits ==
    /\ Len(commitments) >= 1
    /\ \A k \in 1 .. Len(commitments) : commitments[k].participant = Real(k - 1)

\* the commit phase was closed by the clock reaching commit_deadline
ClosedAtDeadline ==
    \E k \in 1 .. Len(broadcasts) :
        /\ broadcasts[k].message = PhaseTransition("Reveal", "Deadline")
        /\ broadcasts[k].timestamp = schedule.commit_deadline

\* every committed identity called reveal successfully before reveal_deadline
AllRevealedInTime ==
    \A k \in 1 .. Len(commitments) :
        \E b \in 1 .. Len(broadcasts) :
            /\ broadcasts[b].sender = commitments[k].participant
            /\ broadcasts[b].message.type = "RevealPublished"
            /\ broadcasts[b].timestamp < schedule.reveal_deadline

ResolveCalledFromReveal ==
    /\ call.op = "end_reveal_and_resolve"
    /\ HasBroadcast(Auctioneer, PhaseTransition("Resolved", "Manual"))

C1_Scenario ==
    /\ WellFormed
    /\ IndexOrderCommits
    /\ ClosedAtDeadline
    /\ AllRevealedInTime
    /\ ResolveCalledFromReveal

\* C1: in a well-formed schedule, when real buyers 0..n-1 commit in index
\* order, the clock closes the commit phase at commit_deadline and everyone
\* reveals before reveal_deadline, end_reveal_and_resolve called from Reveal
\* returns Ok with the outcome and the merged transcript.
C1_ResolveSucceeds ==
    C1_Scenario => (result = Ok /\ returned # <<>>)

\* C2: once advance_to has taken the clock of a session in Reveal to or past
\* reveal_deadline, end_reveal_and_resolve still completes resolution with
\* an outcome instead of failing with WrongPhase.
C2_ResolvableAfterDeadline ==
    (/\ WellFormed
     /\ IndexOrderCommits
     /\ HasBroadcast(Auctioneer, PhaseTransition("Reveal", "Deadline"))
     /\ HasBroadcast(Auctioneer, PhaseTransition("Resolved", "Deadline"))
     /\ current_time >= schedule.reveal_deadline
     /\ call.op = "end_reveal_and_resolve")
    => (result.err.name # "WrongPhase" /\ run_outcome # <<>>)

Successor(p) == IF p = "Commit" THEN "Reveal" ELSE "Resolved"

\* C3 as stated: every call leaves the phase where it was or moves it to the
\* immediate successor in Commit -> Reveal -> Resolved.
C3_OneStepPerCall ==
    [][phase' = phase \/ (phase # "Resolved" /\ phase' = Successor(phase))]_vars

\* the last n broadcasts of the primed log, oldest first
NewBroadcasts == SubSeq(broadcasts', Len(broadcasts) + 1, Len(broadcasts'))

Stamped(ts, message) == [timestamp |-> ts, sender |-> Auctioneer, message |-> message]

\* C3 amended: the phase never moves backward; every call other than
\* advance_to moves it by at most one step; advance_to(now) moves a Commit
\* session to Resolved only when now has reached both deadlines, and then it
\* logs the Reveal transition followed by the Resolved transition.
C3_NoBackwardNoUnloggedSkip ==
    [][\/ phase' = phase
       \/ (phase # "Resolved" /\ phase' = Successor(phase))
       \/ /\ call'.op = "advance_to"
          /\ phase = "Commit" /\ phase' = "Resolved"
          /\ call'.now >= schedule.commit_deadline
          /\ call'.now >= schedule.reveal_deadline
          /\ NewBroadcasts =
                <<Stamped(call'.now, PhaseTransition("Reveal", "Deadline")),
                  Stamped(call'.now, PhaseTransition("Resolved", "Deadline"))>>]_vars

C3_Witness ==
    /\ call.op = "advance_to"
    /\ phase = "Resolved"
    /\ Len(commitments) > 0
    /\ ~HasBroadcast(Auctioneer, PhaseTransition("Reveal", "Manual"))
    /\ \E k \in 1 .. Len(broadcasts) - 1 :
          /\ broadcasts[k].message = PhaseTransition("Reveal", "Deadline")
          /\ broadcasts[k + 1].message = PhaseTransition("Resolved", "Deadline")
          /\ broadcasts[k].timestamp = broadcasts[k + 1].timestamp

\* C4: after a successful advance_to(now), a session that was in Commit with
\* now >= commit_deadline has left Commit and logged
\* PhaseTransition{Reveal, Deadline} stamped now; one in Reveal with
\* now >= reveal_deadline is in Resolved and logged
\* PhaseTransition{Resolved, Deadline} stamped now; with now below the
\* deadline of the current phase, the phase is unchanged and nothing is logged.
C4_AdvanceTransitions ==
    [][(call'.op = "advance_to" /\ result'.tag = "Ok") =>
        LET now == call'.now
        IN /\ (phase = "Commit" /\ now >= schedule.commit_deadline) =>
                /\ phase' # "Commit"
                /\ Len(NewBroadcasts) >= 1
                /\ NewBroadcasts[1] = Stamped(now, PhaseTransition("Reveal", "Deadline"))
           /\ (phase = "Reveal" /\ now >= schedule.reveal_deadline) =>
                /\ phase' = "Resolved"
                /\ NewBroadcasts = <<Stamped(now, PhaseTransition("Resolved", "Deadline"))>>
           /\ (\/ (phase = "Commit" /\ now < schedule.commit_deadline)
               \/ (phase = "Reveal" /\ now < schedule.reveal_deadline)) =>
                /\ phase' = phase
                /\ broadcasts' = broadcasts
                /\ network_log' = network_log]_vars

C4_Witness ==
    /\ call.op = "advance_to"
    /\ result = Ok
    /\ phase = "Reveal"
    /\ Len(commitments) > 0
    /\ broadcasts[Len(broadcasts)] =
          Stamped(current_time, PhaseTransition("Reveal", "Deadline"))

SessionFields == <<dra, rng, scheme, phase, schedule, current_time, commitments,
                   transcript, broadcasts, network_log, subscribers>>

\* C5: advance_to(now) fails with ClockRewind{requested: now, current}
\* exactly when now < current_time and then changes nothing; with
\* now = current_time it succeeds; the clock never decreases.
C5_ClockRewind ==
    [][/\ current_time' >= current_time
       /\ call'.op = "advance_to" =>
            /\ (call'.now < current_time) <=>
                    (result' = Err(ClockRewind(call'.now, current_time)))
            /\ (call'.now < current_time) => UNCHANGED SessionFields
            /\ (call'.now >= current_time) =>
                    (result' = Ok /\ current_time' = call'.now)]_vars

C5_Witness ==
    /\ call.op = "advance_to"
    /\ result = Err(ClockRewind(call.now, current_time))
    /\ call.now < current_time
    /\ Len(commitments) > 0

IsCommitCall(c) == c.op \in {"commit_real", "commit_false"}

\* C6: commit_real / commit_false succeed only in phase Commit before
\* commit_deadline; in another phase they return WrongPhase, in Commit at or
\* after the deadline DeadlineExceeded(Commit), and then no table entry,
\* commit event, broadcast or delivery is added.
C6_CommitGuards ==
    [][IsCommitCall(call') =>
        /\ (result' = Ok) =>
                (phase = "Commit" /\ current_time < schedule.commit_deadline)
        /\ (phase # "Commit") => (result' = Err(WrongPhase))
        /\ (phase = "Commit" /\ current_time >= schedule.commit_deadline) =>
                (result' = Err(DeadlineExceeded("Commit")))
        /\ (result'.err.name \in {"WrongPhase", "DeadlineExceeded"}) =>
                UNCHANGED <<commitments, transcript, broadcasts, network_log>>]_vars

C6_Witness ==
    /\ IsCommitCall(call)
    /\ result = Err(WrongPhase)
    /\ HasBroadcast(Auctioneer, PhaseTransition("Reveal", "Manual"))
    /\ Len(commitments) > 0

Distinct(s) ==
    \A j, k \in 1 .. Len(s) : j # k => s[j].participant # s[k].participant

C8_RevealGuards ==
    [][call'.op = "reveal" =>
        /\ (phase # "Reveal") => (result' = Err(WrongPhase))
        /\ (/\ phase = "Reveal"
            /\ current_time < schedule.reveal_deadline
            /\ ~Committed(call'.id)) =>
                /\ result' = Err(MissingCommit(call'.id))
                /\ UNCHANGED <<transcript, broadcasts, network_log>>]_vars

C8_Witness ==
    /\ call.op = "reveal"
    /\ result = Err(MissingCommit(call.id))
    /\ call.id.kind = "Real"
    /\ Len(commitments) > 0

HasRevealEvent(id) ==
    \E k \in 1 .. Len(transcript.reveals) : transcript.reveals[k].participant = id

RevealedCount ==
    Cardinality({k \in 1 .. Len(commitments) :
        \E r \in 1 .. Len(transcript.reveals) :
            /\ transcript.reveals[r].participant = commitments[k].participant
            /\ transcript.reveals[r].revealed})

\* C10: a successful reveal(id) appends one reveal event stamped
\* current_time whose revealed flag is scheme.verify of the stored commitment
\* and opening of id and which carries the opening iff the flag is true; at
\* resolution the flag of id is that recorded boolean, not the will_reveal
\* given at commit time.
C10_RecordedFlagIsAuthoritative ==
    [][/\ (call'.op = "reveal" /\ result' = Ok) =>
            LET c == commitments[PositionOf(commitments, call'.id)]
                ok == SchemeVerify(scheme, c.commitment, c.opening)
            IN /\ commitments' = commitments
               /\ transcript'.reveals =
                    Append(transcript.reveals,
                           [participant |-> call'.id, revealed |-> ok,
                            opening |-> IF ok THEN <<c.opening>> ELSE <<>>,
                            timestamp |-> current_time])
       /\ (call'.op = "end_reveal_and_resolve" /\ phase = "Reveal") =>
            /\ \A k \in 1 .. Len(commitments) :
                  LET r == PositionOf(transcript.reveals, commitments[k].participant)
                  IN r # 0 =>
                        commitments'[k].will_reveal = transcript.reveals[r].revealed
            /\ run_outcome' # <<>> =>
                  Len(run_outcome'[1].valid_bids) = RevealedCount]_vars

\* a shill committed with will_reveal = false reveals, and the event says so
C10_Witness ==
    /\ call.op = "reveal"
    /\ result = Ok
    /\ call.id.kind = "False"
    /\ commitments[PositionOf(commitments, call.id)].will_reveal = FALSE
    /\ transcript.reveals[Len(transcript.reveals)].participant = call.id
    /\ transcript.reveals[Len(transcript.reveals)].revealed

\* the number of reveal events of id in a reveal log
RevealEventsOf(reveals, id) ==
    Cardinality({r \in 1 .. Len(reveals) : reveals[r].participant = id})

\* C11: end_reveal_and_resolve gives every committed identity without reveal
\* event exactly one reveal event with revealed = false and no opening, and a
\* Timeout{Reveal, identity} broadcast from the Auctioneer; its resolution
\* flag is false, it is not in the valid-bid set of the outcome, and
\* afterwards every committed identity has exactly one reveal event.
C11_TimeoutsRecorded ==
    [][(call'.op = "end_reveal_and_resolve" /\ phase = "Reveal") =>
        /\ \A k \in 1 .. Len(commitments) :
            LET id == commitments[k].participant
            IN ~HasRevealEvent(id) =>
                /\ \E r \in 1 .. Len(transcript'.reveals) :
                      /\ transcript'.reveals[r].participant = id
                      /\ ~transcript'.reveals[r].revealed
                      /\ transcript'.reveals[r].opening = <<>>
                /\ \E b \in 1 .. Len(broadcasts') :
                      /\ broadcasts'[b].sender = Auctioneer
                      /\ broadcasts'[b].message = Timeout("Reveal", id)
                /\ ~commitments'[k].will_reveal
                /\ run_outcome' # <<>> =>
                      \A v \in 1 .. Len(run_outcome'[1].valid_bids) :
                          run_outcome'[1].valid_bids[v][1] # id
        /\ \A k \in 1 .. Len(commitments) :
              RevealEventsOf(transcript'.reveals, commitments[k].participant) = 1]_vars

\* the operations that Resolved refuses
PhaseBoundOps == {"commit_real", "commit_false", "end_commit_phase", "reveal",
                  "end_reveal_and_resolve"}

\* C12: a new session is in phase Commit at clock 0 with empty logs; once
\* the phase is Resolved it stays Resolved, no commit or reveal event is
\* added, and commit_real, commit_false, end_commit_phase, reveal and
\* end_reveal_and_resolve all return WrongPhase.
C12_ResolvedIsTerminal ==
    /\ (/\ phase = "Commit" /\ current_time = 0
        /\ commitments = <<>> /\ transcript.commitments = <<>>
        /\ transcript.reveals = <<>> /\ transcript.broadcasts = <<>>
        /\ transcript.outcome = <<>>
        /\ broadcasts = <<>> /\ network_log = <<>>)
    /\ [][phase = "Resolved" =>
            /\ phase' = "Resolved"
            /\ commitments' = commitments
            /\ transcript'.commitments = transcript.commitments
            /\ transcript'.reveals = transcript.reveals
            /\ (call'.op \in PhaseBoundOps) => (result' = Err(WrongPhase))]_vars

C12_Witness ==
    /\ phase = "Resolved"
    /\ call.op = "commit_false"
    /\ ~Committed(call.id)
    /\ current_time < schedule.commit_deadline
    /\ result = Err(WrongPhase)

\* a call of the one-shot run that produced an outcome
Ran == call.op = "run_with_false_bids" /\ result = Ok

\* the amounts of the valid-bid set, by position
ValidAmount(k) == run_outcome[1].valid_bids[k][2]

ValidCount == Len(run_outcome[1].valid_bids)

\* a position holding the highest valid bid
IsTop(k) == \A j \in 1 .. ValidCount : ValidAmount(j) <= ValidAmount(k)

\* the highest valid bid is strictly above the reserve
SaleDue ==
    \E k \in 1 .. ValidCount : ValidAmount(k) > run_outcome[1].reserve

\* x is the second-highest valid bid, counted with multiplicity
IsSecond(x) ==
    \E k \in 1 .. ValidCount :
        /\ IsTop(k)
        /\ \E j \in (1 .. ValidCount) \ {k} :
              /\ ValidAmount(j) = x
              /\ \A i \in (1 .. ValidCount) \ {k} : ValidAmount(i) <= x

\* C13: a sale occurs iff the highest valid bid is strictly above the
\* reserve; then payment = max(reserve, second-highest valid bid, counted
\* with multiplicity), and payment = reserve with a single valid bid;
\* otherwise there is no winner and the payment is 0.
C13_SecondPriceAboveReserve ==
    Ran =>
        LET o == run_outcome[1]
        IN /\ (o.winner # <<>>) <=> SaleDue
           /\ (SaleDue /\ ValidCount = 1) => (o.payment = o.reserve)
           /\ (SaleDue /\ ValidCount > 1) =>
                 \E x \in {ValidAmount(k) : k \in 1 .. ValidCount} :
                     IsSecond(x) /\ o.payment = Max(o.reserve, x)
           /\ ~SaleDue => (o.winner = <<>> /\ o.payment = 0)

\* bids (15, 9, 12) around reserve 10: Real(0) wins and pays the second
\* price 12
C13_Witness ==
    /\ Ran
    /\ call.valuations = <<GridPerUnit * 15, GridPerUnit * 9, GridPerUnit * 12>>
    /\ call.false_bids = <<>>
    /\ run_outcome[1].winner = <<Real(0)>>
    /\ run_outcome[1].payment = GridPerUnit * 12
    /\ run_outcome[1].payment > run_outcome[1].reserve

\* the identities of the valid-bid set that hold the highest valid bid
TopIds == {run_outcome[1].valid_bids[k][1] : k \in {j \in 1 .. ValidCount : IsTop(j)}}

\* C14: when a sale occurs the winner is in the valid-bid set and holds the
\* maximum valid bid; among the valid bidders tying at the maximum it is the
\* lowest-indexed real buyer, and a shill (the lowest-indexed one) only if
\* no real buyer ties.
C14_WinnerIsTopByRank ==
    (run_outcome # <<>> /\ run_outcome[1].winner # <<>>) =>
        LET w == run_outcome[1].winner[1]
        IN /\ w \in TopIds
           /\ run_outcome[1].winning_bid
                 = ValidAmount(CHOOSE k \in 1 .. ValidCount : IsTop(k))
           /\ \A t \in TopIds :
                 \/ t = w
                 \/ (w.kind = "Real" /\ t.kind = "False")
                 \/ (w.kind = t.kind /\ w.idx < t.idx)
           /\ \A t \in TopIds : tie_rank(w) <= tie_rank(t)

\* the inputs of the call, per identity: the bid handed in and its flag
InputBid(id) ==
    IF id.kind = "Real" THEN call.valuations[id.idx + 1]
    ELSE call.false_bids[id.idx + 1].bid

InputFlag(id) ==
    IF id.kind = "False" THEN call.false_bids[id.idx + 1].reveal
    ELSE IF call.real_reveals = <<>> THEN TRUE
    ELSE call.real_reveals[1][id.idx + 1]

\* the commitments of the run that count: flag true and opening verifies
Counts(k) ==
    /\ InputFlag(commitments[k].id)
    /\ SchemeVerify(scheme, commitments[k].commitment, commitments[k].opening)

\* C15: the valid-bid set holds exactly the commitments whose reveal flag is
\* true and whose opening verifies, each with its committed bid, real buyers
\* in index order before false bids in index order; every other commitment
\* has a reveal event with revealed = false and adds its collateral to the
\* forfeited total.
C15_ValidBidSet ==
    Ran =>
        LET o == run_outcome[1]
            vb == o.valid_bids
            n == Len(call.valuations)
            counted == {k \in 1 .. Len(commitments) : Counts(k)}
        IN /\ Len(commitments) = n + Len(call.false_bids)
           /\ \A k \in 1 .. Len(commitments) :
                 commitments[k].id = IF k <= n THEN Real(k - 1) ELSE False(k - n - 1)
           /\ Len(vb) = Cardinality(counted)
           /\ \A k \in counted :
                 \E v \in 1 .. Len(vb) :
                     vb[v] = <<commitments[k].id, InputBid(commitments[k].id)>>
           /\ \A v \in 1 .. Len(vb) :
                 \E k \in counted : vb[v][1] = commitments[k].id
           /\ \A u, v \in 1 .. Len(vb) :
                 u < v =>
                    \/ (vb[u][1].kind = "Real" /\ vb[v][1].kind = "False")
                    \/ (vb[u][1].kind = vb[v][1].kind /\ vb[u][1].idx < vb[v][1].idx)
           /\ \A k \in (1 .. Len(commitments)) \ counted :
                 \E r \in 1 .. Len(transcript.reveals) :
                     /\ transcript.reveals[r].participant = commitments[k].id
                     /\ ~transcript.reveals[r].revealed
           /\ o.transferred_collateral + o.forfeited_to_auctioneer
                 = o.collateral * (Len(commitments) - Cardinality(counted))

\* a run in which one bid counts, one is withheld and one is revealed but
\* does not verify
C15_Witness ==
    /\ Ran
    /\ ValidCount >= 1
    /\ \E k \in 1 .. Len(commitments) : ~InputFlag(commitments[k].id)
    /\ \E k \in 1 .. Len(commitments) :
          /\ InputFlag(commitments[k].id)
          /\ ~SchemeVerify(scheme, commitments[k].commitment, commitments[k].opening)
    /\ run_outcome[1].transferred_collateral = 2 * run_outcome[1].collateral

\* collateral times the number of commitments outside the valid-bid set
ForfeitedTotal ==
    run_outcome[1].collateral
        * Cardinality({k \in 1 .. Len(commitments) : ~Counts(k)})

\* C16 as stated: the forfeited total goes to the winner on a sale, and
\* whenever there is no winner the auctioneer retains it
\* (forfeited_to_auctioneer = total, transferred_collateral = 0).
C16_RetainedWithoutSale ==
    Ran =>
        LET o == run_outcome[1]
        IN /\ (o.winner # <<>>) => (o.transferred_collateral = ForfeitedTotal)
           /\ (o.winner = <<>>) =>
                 /\ o.forfeited_to_auctioneer = ForfeitedTotal
                 /\ o.transferred_collateral = 0

\* C16: the forfeited total is reported as transferred_collateral on a
\* sale, and also without a sale as long as some bid is valid (the highest
\* valid bid is at or below the reserve); the auctioneer retains it
\* (forfeited_to_auctioneer = total, transferred_collateral = 0) only when
\* no bid is valid.
C16_SettlementFollowsValidSet ==
    Ran =>
        LET o == run_outcome[1]
        IN /\ (o.winner # <<>>) =>
                 (o.transferred_collateral = ForfeitedTotal
                  /\ o.forfeited_to_auctioneer = 0)
           /\ (o.winner = <<>> /\ ValidCount > 0) =>
                 (/\ ~SaleDue
                  /\ o.transferred_collateral = ForfeitedTotal
                  /\ o.forfeited_to_auctioneer = 0)
           /\ (ValidCount = 0) =>
                 (/\ o.winner = <<>>
                  /\ o.forfeited_to_auctioneer = ForfeitedTotal
                  /\ o.transferred_collateral = 0)

\* no sale, two valid bids at or below the reserve, one withheld shill bid
C16_Witness ==
    /\ Ran
    /\ run_outcome[1].winner = <<>>
    /\ ValidCount = 2
    /\ Len(call.false_bids) = 1
    /\ ~call.false_bids[1].reveal
    /\ run_outcome[1].transferred_collateral = run_outcome[1].collateral
    /\ run_outcome[1].collateral > 0

\* C17: whenever the valid-bid set is non-empty, with or without a sale,
\* transferred_collateral is the forfeited total and forfeited_to_auctioneer
\* is 0; forfeited_to_auctioneer is non-zero only when no bid is valid.
C17_TransferredWheneverValid ==
    Ran =>
        LET o == run_outcome[1]
        IN /\ (ValidCount > 0) =>
                 (o.transferred_collateral = ForfeitedTotal
                  /\ o.forfeited_to_auctioneer = 0)
           /\ (o.forfeited_to_auctioneer # 0) => (ValidCount = 0)

\* one real bid below the reserve and a withheld shill bid far above it:
\* nothing is sold and the shill's collateral is reported as transferred
C17_Witness ==
    /\ Ran
    /\ call.valuations = <<GridPerUnit * 9>>
    /\ call.false_bids = <<[bid |-> GridPerUnit * 300, reveal |-> FALSE]>>
    /\ run_outcome[1].winner = <<>>
    /\ run_outcome[1].transferred_collateral
          = collateral_requirement(1, run_outcome[1].reserve)
    /\ run_outcome[1].transferred_collateral > 0
    /\ run_outcome[1].forfeited_to_auctioneer = 0

\* the positions of the false bids handed in as non-revealing
Withheld == {j \in 1 .. Len(call.false_bids) : ~call.false_bids[j].reveal}

\* the outcome of the same call with the amount of false bid j replaced
OutcomeWithAmount(j, amount) ==
    RunOutcome(dra.reserve, call.valuations,
               [call.false_bids EXCEPT ![j].bid = amount],
               call.real_reveals, rng, scheme)

\* C18: a false bid handed in as non-revealing is not in the valid-bid set
\* and is not the winner, whatever its amount; valid-bid set, winner and
\* payment are those of the same call with any other amount in its place;
\* and its collateral is forfeited: transferred_collateral +
\* forfeited_to_auctioneer is at least the collateral, hence positive when
\* the collateral is.
C18_WithheldShillIsInert ==
    Ran =>
        \A j \in Withheld :
            LET o == run_outcome[1]
            IN /\ \A v \in 1 .. ValidCount : o.valid_bids[v][1] # False(j - 1)
               /\ o.winner # <<False(j - 1)>>
               /\ \A amount \in FalseAmounts \cup RunBids :
                     LET p == OutcomeWithAmount(j, amount)
                     IN /\ p.valid_bids = o.valid_bids
                        /\ p.winner = o.winner
                        /\ p.payment = o.payment
               /\ o.transferred_collateral + o.forfeited_to_auctioneer
                     >= o.collateral
               /\ (o.collateral > 0) =>
                     (o.transferred_collateral + o.forfeited_to_auctioneer > 0)

\* a withheld shill bid far above the only real bid, under the scheme that
\* would have verified it: the real buyer wins and pays the reserve
C18_Witness ==
    /\ Ran
    /\ scheme.backend = "Sha"
    /\ call.valuations = <<GridPerUnit * 12>>
    /\ call.false_bids = <<[bid |-> GridPerUnit * 300, reveal |-> FALSE]>>
    /\ run_outcome[1].winner = <<Real(0)>>
    /\ run_outcome[1].payment = run_outcome[1].reserve
    /\ run_outcome[1].valid_bids = <<<<Real(0), GridPerUnit * 12>>>>
    /\ run_outcome[1].transferred_collateral = run_outcome[1].collateral

\* C19: the tie-break rank is a strict total order: Auctioneer below every
\* real buyer, every real buyer below every shill, strictly increasing in
\* the index within a kind, and distinct identities have distinct ranks,
\* for all indices.
C19_RankIsStrictTotalOrder ==
    (call.op = "tie_rank") =>
        /\ (call.a.kind = "Auctioneer" /\ call.b.kind # "Auctioneer") =>
              (call.rank_a < call.rank_b)
        /\ (call.a.kind = "Real" /\ call.b.kind = "False") =>
              (call.rank_a < call.rank_b)
        /\ (call.a.kind = call.b.kind /\ call.a.idx < call.b.idx) =>
              (call.rank_a < call.rank_b)
        /\ (call.a # call.b) => (call.rank_a # call.rank_b)

\* --------------------------------------------------------------- C20
Audited == call.op = "audit_transcript" /\ audit # <<>>

Rev(k) == transcript.reveals[k]

\* the commit event the audit holds for p: the last one of p, 0 for none
Recorded(p) == CommitMapIndex(transcript, p)

NoOpening(k) == Rev(k).revealed /\ Rev(k).opening = <<>>

FailsVerification(k) ==
    /\ Rev(k).revealed
    /\ Rev(k).opening # <<>>
    /\ Recorded(Rev(k).participant) # 0
    /\ ~SchemeVerify(scheme,
                     transcript.commitments[Recorded(Rev(k).participant)].commitment,
                     Rev(k).opening[1])

AbsentFromValid(k) ==
    /\ Rev(k).revealed
    /\ transcript.outcome # <<>>
    /\ \A v \in 1 .. Len(transcript.outcome[1].valid_bids) :
          transcript.outcome[1].valid_bids[v][1] # Rev(k).participant

\* one of the three faults of the claim, on a reveal event marked revealed
Faulty(k) == NoOpening(k) \/ FailsVerification(k) \/ AbsentFromValid(k)

\* C20 as the specification states it: whenever a reveal event marked
\* revealed has no opening, an opening that fails verification against the
\* participant's recorded commitment, or a participant absent from the
\* outcome's valid bids, the audit answers BadOpening of such a participant;
\* and BadOpening comes from reveal events marked revealed only.
C20_BadOpeningForEveryFault ==
    Audited =>
        /\ (\E k \in 1 .. Len(transcript.reveals) : Faulty(k)) =>
              /\ audit[1].err = "BadOpening"
              /\ \E k \in 1 .. Len(transcript.reveals) :
                    Faulty(k) /\ Rev(k).participant = audit[1].participant
        /\ audit[1].err = "BadOpening" =>
              \E k \in 1 .. Len(transcript.reveals) :
                  Faulty(k) /\ Rev(k).participant = audit[1].participant

\* reveal event k passes the checks the audit makes before it looks at the
\* opening: not before the previous event (the commit deadline for the
\* first), not after the reveal deadline, a participant with a commit event,
\* not before that commit event
TimedRight(k) ==
    /\ Rev(k).timestamp >= (IF k = 1 THEN transcript.timings.commit_deadline
                            ELSE Rev(k - 1).timestamp)
    /\ Rev(k).timestamp <= transcript.timings.reveal_deadline
    /\ Recorded(Rev(k).participant) # 0
    /\ Rev(k).timestamp
          >= transcript.commitments[Recorded(Rev(k).participant)].timestamp

\* the audit gets as far as the opening of reveal event k
Reaches(k) ==
    /\ transcript.outcome # <<>>
    /\ transcript.timings.reveal_deadline >= transcript.timings.commit_deadline
    /\ AuditCommitments(transcript, 1, 0) = AuditOk
    /\ \A j \in 1 .. k : TimedRight(j)
    /\ \A j \in 1 .. k - 1 : ~Faulty(j)

\* C20, amended: a transcript with a faulty reveal event marked revealed is
\* rejected; the error is BadOpening(participant) when the audit gets as far
\* as that event's opening (outcome and timings present, commit events in
\* order and in time, every earlier reveal event passing, the event itself
\* in order, in time and of a committed participant); and BadOpening is
\* answered for such an event only, never for one marked not revealed.
C20_BadOpeningAtFirstFault ==
    Audited =>
        /\ (\E k \in 1 .. Len(transcript.reveals) : Faulty(k)) =>
              audit[1].tag = "Err"
        /\ \A k \in 1 .. Len(transcript.reveals) :
              Reaches(k) /\ Faulty(k) => audit[1] = BadOpening(Rev(k).participant)
        /\ audit[1].err = "BadOpening" =>
              \E k \in 1 .. Len(transcript.reveals) :
                  /\ Reaches(k)
                  /\ Faulty(k)
                  /\ Rev(k).participant = audit[1].participant

\* the second reveal event carries another participant's opening, its
\* participant is among the valid bids, the first event is marked not
\* revealed, and the audit answers BadOpening of the second participant
C20_Witness ==
    /\ Audited
    /\ Len(transcript.reveals) >= 2
    /\ ~Rev(1).revealed
    /\ Reaches(2)
    /\ FailsVerification(2)
    /\ ~AbsentFromValid(2)
    /\ audit[1] = BadOpening(Rev(2).participant)

\* --------------------------------------------------------------- C21
\* reveal event k names a participant without commit event
Stray(k) ==
    \A c \in 1 .. Len(transcript.commitments) :
        transcript.commitments[c].participant # Rev(k).participant

\* the checks that come before the reveal loop pass, and so does every
\* reveal event before the k-th
PriorPass(k) ==
    /\ transcript.outcome # <<>>
    /\ transcript.timings.reveal_deadline >= transcript.timings.commit_deadline
    /\ AuditCommitments(transcript, 1, 0) = AuditOk
    /\ \A j \in 1 .. k - 1 : TimedRight(j) /\ ~Faulty(j)

\* reveal event k is not before the previous one (the commit deadline for
\* the first) and not after the reveal deadline
InOrderInTime(k) ==
    /\ Rev(k).timestamp >= (IF k = 1 THEN transcript.timings.commit_deadline
                            ELSE Rev(k - 1).timestamp)
    /\ Rev(k).timestamp <= transcript.timings.reveal_deadline

\* C21 as the specification states it: whenever a reveal event names a
\* participant without commit event, the audit answers RevealWithoutCommit
\* of such a participant.
C21_RevealWithoutCommitForEveryStray ==
    Audited =>
        ((\E k \in 1 .. Len(transcript.reveals) : Stray(k)) =>
            /\ audit[1].err = "RevealWithoutCommit"
            /\ \E k \in 1 .. Len(transcript.reveals) :
                  Stray(k) /\ Rev(k).participant = audit[1].participant)

\* C21, amended: a transcript with a reveal event of a participant without
\* commit event is rejected; the error is RevealWithoutCommit(participant)
\* when the audit gets as far as looking the participant up (the checks
\* before the reveal loop pass, every earlier reveal event passes, and the
\* event is in order and not after the reveal deadline); and
\* RevealWithoutCommit is answered for such an event only.
C21_RevealWithoutCommitAtFirstFault ==
    Audited =>
        /\ (\E k \in 1 .. Len(transcript.reveals) : Stray(k)) =>
              audit[1].tag = "Err"
        /\ \A k \in 1 .. Len(transcript.reveals) :
              PriorPass(k) /\ InOrderInTime(k) /\ Stray(k) =>
                  audit[1] = RevealWithoutCommit(Rev(k).participant)
        /\ audit[1].err = "RevealWithoutCommit" =>
              \E k \in 1 .. Len(transcript.reveals) :
                  /\ PriorPass(k)
                  /\ InOrderInTime(k)
                  /\ Stray(k)
                  /\ Rev(k).participant = audit[1].participant

\* the second reveal event names a participant that never committed, is
\* marked revealed and carries an opening; the first event passes, and the
\* audit answers RevealWithoutCommit of the second event's participant
C21_Witness ==
    /\ Audited
    /\ Len(transcript.reveals) >= 2
    /\ PriorPass(2)
    /\ InOrderInTime(2)
    /\ Stray(2)
    /\ Rev(2).revealed
    /\ Rev(2).opening # <<>>
    /\ audit[1] = RevealWithoutCommit(Rev(2).participant)

\* --------------------------------------------------------------- C22
\* reveal event k is stamped before the commit event of its participant
BeforeItsCommit(k) ==
    \E c \in 1 .. Len(transcript.commitments) :
        /\ transcript.commitments[c].participant = Rev(k).participant
        /\ Rev(k).timestamp < transcript.commitments[c].timestamp

\* C22: when everything before reveal event k passes, an event stamped
\* before its participant's commit event is rejected with the
\* DeadlineViolation that names the participant and the reveal timestamp,
\* and an event stamped after reveal_deadline with
\* DeadlineViolation{participant, Reveal, timestamp}.
C22_RevealTimeErrors ==
    Audited =>
        \A k \in 1 .. Len(transcript.reveals) :
            /\ PriorPass(k) /\ BeforeItsCommit(k) =>
                  /\ audit[1].err = "DeadlineViolation"
                  /\ audit[1].participant = Rev(k).participant
                  /\ audit[1].timestamp = Rev(k).timestamp
            /\ PriorPass(k)
                  /\ Rev(k).timestamp > transcript.timings.reveal_deadline =>
                  audit[1] = DeadlineViolation(Rev(k).participant, "Reveal",
                                               Rev(k).timestamp)

\* --------------------------------------------------------------- C24
Com(k) == transcript.commitments[k]

NoOutcome == transcript.outcome = <<>>

BadTimings ==
    transcript.timings.reveal_deadline < transcript.timings.commit_deadline

\* commit event k is stamped before the one in front of it
CommitDecreases(k) == k > 1 /\ Com(k).timestamp < Com(k - 1).timestamp

CommitLate(k) == Com(k).timestamp > transcript.timings.commit_deadline

CommitError(k) ==
    DeadlineViolation(Com(k).participant, "Commit", Com(k).timestamp)

\* C24 as the specification states it: each of the four faults is answered
\* with its own error, whatever else the transcript holds.
C24_EachFaultItsError ==
    Audited =>
        /\ NoOutcome => audit[1] = AuditErr("MissingOutcome")
        /\ BadTimings => audit[1] = AuditErr("MissingTimings")
        /\ (\E k \in 1 .. Len(transcript.commitments) : CommitDecreases(k)) =>
              audit[1] = UnorderedEvents("commitments")
        /\ (\E k \in 1 .. Len(transcript.commitments) : CommitLate(k)) =>
              \E k \in 1 .. Len(transcript.commitments) :
                  CommitLate(k) /\ audit[1] = CommitError(k)

\* C24, amended: a transcript with one of the four faults is rejected, and
\* the first failing check decides the error: MissingOutcome without
\* outcome; else MissingTimings when reveal_deadline < commit_deadline; else,
\* at the first commit event that is out of order or late,
\* UnorderedEvents("commitments") when it is stamped before the previous one
\* and otherwise DeadlineViolation{participant, Commit, timestamp} when it
\* is stamped after commit_deadline. With none of the four faults (commit
\* events stamped exactly commit_deadline included) none of these errors is
\* answered for a commit event.
C24_FirstFaultDecides ==
    Audited =>
        /\ NoOutcome => audit[1] = AuditErr("MissingOutcome")
        /\ ~NoOutcome /\ BadTimings => audit[1] = AuditErr("MissingTimings")
        /\ ~NoOutcome /\ ~BadTimings =>
              \A k \in 1 .. Len(transcript.commitments) :
                  (\A j \in 1 .. k - 1 : ~CommitDecreases(j) /\ ~CommitLate(j)) =>
                      /\ CommitDecreases(k) =>
                            audit[1] = UnorderedEvents("commitments")
                      /\ ~CommitDecreases(k) /\ CommitLate(k) =>
                            audit[1] = CommitError(k)
        /\ /\ ~NoOutcome
           /\ ~BadTimings
           /\ \A k \in 1 .. Len(transcript.commitments) :
                 ~CommitDecreases(k) /\ ~CommitLate(k)
           => /\ audit[1].err \notin {"MissingOutcome", "MissingTimings"}
              /\ audit[1] # UnorderedEvents("commitments")
              /\ \A k \in 1 .. Len(transcript.commitments) :
                    audit[1] # CommitError(k)

\* the last commit event is stamped exactly commit_deadline, after an
\* earlier one, and the audit accepts the transcript
C24_Witness ==
    /\ Audited
    /\ Len(transcript.commitments) >= 2
    /\ Com(Len(transcript.commitments)).timestamp
          = transcript.timings.commit_deadline
    /\ audit[1] = AuditOk

\* --------------------------------------------------------------- C23
Bc(i) == transcript.broadcasts[i]

\* broadcast event i is stamped before the one in front of it
BcDecreases(i) == i > 1 /\ Bc(i).timestamp < Bc(i - 1).timestamp

\* broadcast event i is on the wrong side of the deadline of its kind
BcOutOfTime(i) ==
    LET m == Bc(i).message
        ts == Bc(i).timestamp
        cd == transcript.timings.commit_deadline
        rd == transcript.timings.reveal_deadline
    IN CASE m.type = "CommitmentPublished" -> ts > cd
         [] m.type = "RevealPublished" -> ts > rd
         [] m.type = "Timeout" -> ts < (IF m.phase = "Commit" THEN cd ELSE rd)
         [] m.type = "PhaseTransition" ->
                \/ (m.phase = "Reveal" /\ ts < cd)
                \/ (m.phase = "Resolved" /\ ts < rd)

BcError(i) ==
    LET m == Bc(i).message
    IN CASE m.type = "CommitmentPublished" ->
                DeadlineViolation(Bc(i).sender, "Commit", Bc(i).timestamp)
         [] m.type = "RevealPublished" ->
                DeadlineViolation(Bc(i).sender, "Reveal", Bc(i).timestamp)
         [] m.type = "Timeout" ->
                DeadlineViolation(m.target, m.phase, Bc(i).timestamp)
         [] m.type = "PhaseTransition" ->
                DeadlineViolation(Bc(i).sender, m.phase, Bc(i).timestamp)

\* everything the audit checks before the broadcast events passes
StagesBeforePass ==
    /\ ~NoOutcome
    /\ ~BadTimings
    /\ AuditCommitments(transcript, 1, 0) = AuditOk
    /\ AuditReveals(transcript, scheme, 1,
                    transcript.timings.commit_deadline) = AuditOk

\* C23 as the specification states it: decreasing broadcast timestamps are
\* answered with UnorderedEvents("broadcasts") and an event on the wrong
\* side of its deadline with DeadlineViolation, whatever else the
\* transcript holds.
C23_EachBroadcastFaultItsError ==
    Audited =>
        /\ (\E i \in 1 .. Len(transcript.broadcasts) : BcDecreases(i)) =>
              audit[1] = UnorderedEvents("broadcasts")
        /\ (\E i \in 1 .. Len(transcript.broadcasts) : BcOutOfTime(i)) =>
              audit[1].err = "DeadlineViolation"

\* C23, amended: a transcript with a broadcast event out of order or on the
\* wrong side of its deadline is rejected; when everything the audit checks
\* before the broadcast events passes, the first such event decides the
\* error: UnorderedEvents("broadcasts") when it is stamped before the
\* previous one, and otherwise the DeadlineViolation of its kind; and when
\* no event is out of order or out of time (events exactly at their
\* deadline included) the transcript is accepted.
C23_FirstBroadcastFaultDecides ==
    Audited =>
        /\ (\E i \in 1 .. Len(transcript.broadcasts) :
                BcDecreases(i) \/ BcOutOfTime(i)) => audit[1].tag = "Err"
        /\ StagesBeforePass =>
              \A i \in 1 .. Len(transcript.broadcasts) :
                  (\A j \in 1 .. i - 1 : ~BcDecreases(j) /\ ~BcOutOfTime(j)) =>
                      /\ BcDecreases(i) =>
                            audit[1] = UnorderedEvents("broadcasts")
                      /\ ~BcDecreases(i) /\ BcOutOfTime(i) =>
                            audit[1] = BcError(i)
        /\ /\ StagesBeforePass
           /\ \A i \in 1 .. Len(transcript.broadcasts) :
                 ~BcDecreases(i) /\ ~BcOutOfTime(i)
           => audit[1] = AuditOk

\* a Reveal timeout stamped exactly reveal_deadline and a CommitmentPublished
\* or a transition into Reveal stamped exactly commit_deadline, in a
\* transcript the audit accepts
C23_Witness ==
    /\ Audited
    /\ audit[1] = AuditOk
    /\ \E i \in 1 .. Len(transcript.broadcasts) :
          /\ Bc(i).message.type = "Timeout"
          /\ Bc(i).message.phase = "Reveal"
          /\ Bc(i).timestamp = transcript.timings.reveal_deadline
    /\ \E i \in 1 .. Len(transcript.broadcasts) :
          /\ Bc(i).message.type \in {"CommitmentPublished", "PhaseTransition"}
          /\ Bc(i).timestamp = transcript.timings.commit_deadline

\* --------------------------------------------------------------- C25
\* the receipts returned so far, each with the thread that got it
ReceiptsReturned ==
    {x \in (DOMAIN threads) \X (1 .. MaxAppends) :
        x[2] <= Len(threads[x[1]].receipts)}

ReceiptAt(x) == threads[x[1]].receipts[x[2]]

Quiescent == \A t \in DOMAIN threads : threads[t].pc = "idle"

\* the hash chain over the first n entries, written out from its definition
RECURSIVE ChainRoot(_, _)
ChainRoot(entries, n) ==
    IF n = 0 THEN ZeroRoot
    ELSE <<"DRA-AUDIT-ROOT", ChainRoot(entries, n - 1), entries[n]>>

\* C25: under any interleaving the returned indices are pairwise distinct,
\* each receipt's entry sits at its index and its root is the chain root
\* of the prefix up to that index, and whenever no call is in progress the
\* indices are exactly 0 .. n-1 for the n entries of the ledger.
C25_AppendsAreAtomic ==
    /\ \A x, y \in ReceiptsReturned :
          x # y => ReceiptAt(x).index # ReceiptAt(y).index
    /\ \A x \in ReceiptsReturned :
          /\ ReceiptAt(x).index < Len(ledger.entries)
          /\ ledger.entries[ReceiptAt(x).index + 1] = ReceiptAt(x).entry_hash
          /\ ReceiptAt(x).root
                = ChainRoot(ledger.entries, ReceiptAt(x).index + 1)
    /\ Quiescent =>
          {ReceiptAt(x).index : x \in ReceiptsReturned}
              = 0 .. Len(ledger.entries) - 1

\* every thread has made all its appends, and the appends of the first
\* thread are not next to each other in the ledger
C25_Witness ==
    /\ threads # <<>>
    /\ Quiescent
    /\ \A t \in DOMAIN threads : Len(threads[t].receipts) = MaxAppends
    /\ threads[1].receipts[2].index > threads[1].receipts[1].index + 1

\* --------------------------------------------------------------- C26
\* C26: a log_entry call, made directly or by the audited wrapper's commit,
\* appends exactly its argument at the end of the ledger and returns the
\* receipt with index = new length - 1, the argument as entry_hash, and the
\* chain root over all entries up to and including the new one.
C26_LogEntryAppendsAndChains ==
    [][/\ call'.op = "log_entry" =>
            /\ ledger'.entries = Append(ledger.entries, call'.entry_hash)
            /\ call'.receipt.index = Len(ledger'.entries) - 1
            /\ call'.receipt.entry_hash = call'.entry_hash
            /\ call'.receipt.root
                  = ChainRoot(ledger'.entries, Len(ledger'.entries))
       /\ call'.op = "commit" /\ scheme = AuditedScheme =>
            LET receipt ==
                    commitments'[Len(commitments')].opening.audit_receipt[1]
            IN /\ ledger'.entries = Append(ledger.entries, receipt.entry_hash)
               /\ receipt.index = Len(ledger'.entries) - 1
               /\ receipt.root
                     = ChainRoot(ledger'.entries, Len(ledger'.entries))]_vars

\* a direct log_entry has just appended the second entry, after a different
\* first one
C26_Witness ==
    /\ call.op = "log_entry"
    /\ call.receipt.index = 1
    /\ Len(ledger.entries) = 2
    /\ ledger.entries[1] # ledger.entries[2]

\* --------------------------------------------------------------- C27
\* the receipt is the one the ledger holds for its index
ReceiptStands(receipt) ==
    /\ receipt.index < Len(ledger.entries)
    /\ ledger.entries[receipt.index + 1] = receipt.entry_hash
    /\ ChainRoot(ledger.entries, receipt.index + 1) = receipt.root

\* C27: ledger.verify answers true exactly for a receipt whose index is in
\* range, whose entry_hash is the stored entry and whose root is the chain
\* root up to that index; it leaves the ledger as it was; and the audited
\* scheme's verify, which does not change the ledger either, is false for
\* an opening whose receipt differs from the one commit attached.
C27_VerifyReplaysTheChain ==
    [][/\ call'.op = "ledger_verify" =>
            /\ call'.ok <=> ReceiptStands(call'.receipt)
            /\ ledger' = ledger
       /\ call'.op = "verify" /\ scheme = AuditedScheme =>
            /\ ledger' = ledger
            /\ call'.opening.audit_receipt
                    # commitments[call'.k].opening.audit_receipt
                  => ~call'.ok]_vars

\* on a ledger of two entries, verify has accepted the receipt of the first
C27_Witness ==
    /\ call.op = "ledger_verify"
    /\ Len(ledger.entries) = 2
    /\ call.receipt.index = 0
    /\ call.ok

\* --------------------------------------------------------------- C29
\* the values a backend supports: the range-proof backends take encodings
\* that fit their bit width, the others every non-negative value
InDomain(s, bid) ==
    s.backend \in {"Bulletproofs", "Audited"} =>
        FitsBits(BidEncoding(bid), s.range_bits)

\* C29: under each of the five backends, verify is true for a commitment
\* and the opening commit returned with it, for every bid of the backend's
\* domain.
C29_RoundTrip ==
    /\ call.op = "verify"
    /\ call.opening = commitments[call.k].opening
    /\ InDomain(scheme, call.opening.bid)
    => call.ok

\* the audited wrapper has verified its first pair after the ledger grew to
\* two entries
C29_Witness ==
    /\ call.op = "verify"
    /\ scheme = AuditedScheme
    /\ Len(ledger.entries) = 2
    /\ call.k = 1
    /\ call.opening = commitments[1].opening
    /\ call.ok

\* --------------------------------------------------------------- C30
\* C30: under every backend verify is false whenever the bid of the opening
\* re-encodes to something else than the encoding stored in the opening.
C30_ReencodingMismatchFails ==
    /\ call.op = "verify"
    /\ BidEncoding(call.opening.bid) # call.opening.encoding
    => ~call.ok

\* the opening commit returned, with only its bid replaced by one of another
\* encoding, has been rejected by the hash backend
C30_Witness ==
    /\ call.op = "verify"
    /\ scheme.backend = "Sha"
    /\ call.opening # commitments[call.k].opening
    /\ call.opening
          = [commitments[call.k].opening EXCEPT !.bid = call.opening.bid]
    /\ BidEncoding(call.opening.bid) # call.opening.encoding
    /\ ~call.ok

PairVerifies(k) ==
    BackendVerify(scheme, commitments[k].commitment, commitments[k].opening,
                  ledger.entries)

\* C31: under every backend, for a pair that verifies, verify is no longer
\* true once a bit of the opening's salt, mask or proof payload is changed.
C31_EveryFieldMatters ==
    /\ call.op = "verify"
    /\ call.field \in {"salt", "mask", "proof"}
    /\ PairVerifies(call.k)
    => call.outcome # "true"

\* --------------------------------------------------------------- C32
\* C32: verify returns a boolean for every opening; it never aborts.
C32_VerifyNeverAborts ==
    call.op = "verify" => call.outcome \in {"true", "false"}

\* --------------------------------------------------------------- C33
NoRealCommitted ==
    \A k \in 1 .. Len(commitments) : commitments[k].participant.kind # "Real"

\* C33: validate_inputs(0) is InsufficientBuyers, and end_reveal_and_resolve
\* called in phase Reveal on a session without a real-buyer commitment
\* aborts: it returns nothing and no outcome is produced, whatever false
\* bids were committed.
C33_NoBuyersNoOutcome ==
    /\ validate_inputs(0) = [tag |-> "Err", err |-> "InsufficientBuyers"]
    /\ (/\ call.op = "end_reveal_and_resolve"
        /\ result # Err(WrongPhase)
        /\ NoRealCommitted)
       => (result = Panic /\ returned = <<>> /\ run_outcome = <<>>)

\* the resolution of a session that holds the revealed commitment of a
\* false identity and none of a real buyer has aborted
C33_Witness ==
    /\ call.op = "end_reveal_and_resolve"
    /\ result = Panic
    /\ Len(commitments) >= 1
    /\ NoRealCommitted
    /\ \E k \in 1 .. Len(transcript.reveals) :
          /\ transcript.reveals[k].participant.kind = "False"
          /\ transcript.reveals[k].revealed

\* --------------------------------------------------------------- C34
IsPrefix(a, b) == Len(a) <= Len(b) /\ SubSeq(b, 1, Len(a)) = a

CommitDelivery(from, to) ==
    [sender |-> from, recipient |-> to, phase |-> "Commit",
     payload |-> [type |-> "Commitment", from |-> from]]

\* C34: the subscriber list and the network log only grow, and a successful
\* commit adds to the log, for every identity subscribed before the call
\* (the participants listed at construction among them), a
\* Commitment{from: committer} delivery addressed to it in phase Commit.
C34_EveryCommitDelivered ==
    [][/\ IsPrefix(subscribers, subscribers')
       /\ IsPrefix(network_log, network_log')
       /\ (call'.op \in {"commit_real", "commit_false"} /\ result' = Ok) =>
             \A k \in 1 .. Len(subscribers) :
                \E n \in Len(network_log) + 1 .. Len(network_log') :
                   network_log'[n] = CommitDelivery(call'.id, subscribers[k])]_vars

\* Real(0), listed at construction and without a commitment of its own,
\* holds the delivery of the commitment of Real(1), who was not listed
C34_Witness ==
    /\ Committed(Real(1))
    /\ ~Committed(Real(0))
    /\ Contains(network_log, CommitDelivery(Real(1), Real(0)))
    /\ Contains(network_log, CommitDelivery(Real(1), Auctioneer))

\* --------------------------------------------------------------- C35
\* the commit phase was closed by end_commit_phase before commit_deadline
ClosedManuallyEarly ==
    \E k \in 1 .. Len(broadcasts) :
        /\ broadcasts[k].message = PhaseTransition("Reveal", "Manual")
        /\ broadcasts[k].timestamp < schedule.commit_deadline

\* C35: a session closed manually with end_commit_phase before
\* commit_deadline, whose committed identities (a real buyer among them)
\* all reveal before reveal_deadline, is resolved successfully by
\* end_reveal_and_resolve.
C35_ManualCloseResolves ==
    (/\ WellFormed
     /\ \E k \in 1 .. Len(commitments) : commitments[k].participant.kind = "Real"
     /\ ClosedManuallyEarly
     /\ AllRevealedInTime
     /\ ResolveCalledFromReveal)
    => (result = Ok /\ returned # <<>>)

\* --------------------------------------------------------------- C36
\* id committed bid in the session and has a successful reveal event
CommittedAndRevealed(id, bid) ==
    /\ \E k \in 1 .. Len(commitments) :
          /\ commitments[k].participant = id
          /\ commitments[k].opening.bid = bid
    /\ \E r \in 1 .. Len(transcript.reveals) :
          /\ transcript.reveals[r].participant = id
          /\ transcript.reveals[r].revealed

C37_RunTranscriptsPassAudit ==
    (call.op = "run_with_false_bids" /\ result = Ok) =>
        audit_transcript(transcript, scheme) = AuditOk

\* --------------------------------------------------------------- C38
\* checks 1 and 2: outcome and timings, commit events in order and in time
OutcomeTimingsCommitsPass ==
    /\ ~NoOutcome
    /\ ~BadTimings
    /\ \A k \in 1 .. Len(transcript.commitments) :
          ~CommitDecreases(k) /\ ~CommitLate(k)

\* check 3: every reveal event has a commit event of its identity, is not
\* stamped before it and not after reveal_deadline
RevealEventsPass ==
    \A k \in 1 .. Len(transcript.reveals) :
        /\ ~Stray(k)
        /\ ~BeforeItsCommit(k)
        /\ Rev(k).timestamp <= transcript.timings.reveal_deadline

\* check 4: every reveal marked revealed has a verifying opening and an
\* identity of the valid-bid set
OpeningsPass == \A k \in 1 .. Len(transcript.reveals) : ~Faulty(k)

\* check 5: broadcast events in order and on the right side of their deadline
BroadcastEventsPass ==
    \A i \in 1 .. Len(transcript.broadcasts) : ~BcDecreases(i) /\ ~BcOutOfTime(i)

ChecksOneToFive ==
    /\ OutcomeTimingsCommitsPass
    /\ RevealEventsPass
    /\ OpeningsPass
    /\ BroadcastEventsPass

\* C38: audit_transcript accepts exactly the transcripts that satisfy
\* checks 1-5: those whose reveal events are stamped before commit_deadline
\* (not before their own commit) or are not in timestamp order included.
C38_AcceptsExactlyTheChecks ==
    Audited => (audit[1] = AuditOk <=> ChecksOneToFive)

\* --------------------------------------------------------------- C39
\* the first commit event of p in the transcript
FirstCommit(p) ==
    CHOOSE k \in 1 .. Len(transcript.commitments) :
        /\ transcript.commitments[k].participant = p
        /\ \A j \in 1 .. k - 1 : transcript.commitments[j].participant # p

\* the opening of every reveal marked revealed verifies against the first
\* commitment of its identity
OpeningsMatchFirstCommit ==
    \A k \in 1 .. Len(transcript.reveals) :
        Rev(k).revealed =>
            SchemeVerify(scheme,
                         transcript.commitments[FirstCommit(Rev(k).participant)].commitment,
                         Rev(k).opening[1])

\* everything the audit checks passes, the verification of the openings
\* left aside
AllButVerificationPass ==
    /\ OutcomeTimingsCommitsPass
    /\ \A k \in 1 .. Len(transcript.reveals) :
          /\ TimedRight(k)
          /\ ~NoOpening(k)
          /\ ~AbsentFromValid(k)
    /\ BroadcastEventsPass

\* C39: in a transcript with more than one commit event for an identity, a
\* revealed opening is checked against the first commitment of the
\* identity: when every other check passes, the audit accepts exactly when
\* every revealed opening verifies against that first commitment.
C39_FirstCommitmentCounts ==
    (Audited /\ AllButVerificationPass) =>
        (audit[1] = AuditOk <=> OpeningsMatchFirstCommit)

\* --------------------------------------------------------------- C40
\* the k-th opening handed out by commit verifies on the ledger entries
OpeningStands(k, entries) ==
    BackendVerify(scheme, commitments[k].commitment, commitments[k].opening,
                  entries)

\* C40: every step keeps the stored entries as a prefix of the ledger (none
\* is modified or removed, the length does not decrease), every receipt
\* that ledger.verify accepts before the step is accepted after it, and
\* every opening of the audited scheme that verifies before the step
\* verifies after it (a step that leaves the entries alone keeps both).
C40_LedgerIsAppendOnly ==
    [][/\ IsPrefix(ledger.entries, ledger'.entries)
       /\ ledger'.entries # ledger.entries =>
             /\ \A r \in CandidateReceipts :
                   ledger_verify(ledger.entries, r)
                      => ledger_verify(ledger'.entries, r)
             /\ scheme = AuditedScheme =>
                   \A k \in 1 .. Len(commitments) :
                       OpeningStands(k, ledger.entries)
                          => OpeningStands(k, ledger'.entries)]_vars

\* the opening of the first commitment of the audited scheme has just
\* verified on a ledger that holds a later entry
C40_Witness ==
    /\ scheme = AuditedScheme
    /\ call.op = "verify"
    /\ call.k = 1
    /\ call.opening = commitments[1].opening
    /\ call.ok
    /\ call.opening.audit_receipt[1].index = 0
    /\ Len(ledger.entries) = MaxEntries

====
